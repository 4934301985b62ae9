-------------------------- MODULE RateLimiterProofs ---------------------------
(***************************************************************************)
(* For any number of requests and keys: no two hits of a window are told   *)
(* the same count, a window admits no more than the largest limit and any  *)
(* Window ticks in a row less than twice that, and nobody is refused who   *)
(* did not spend the limit.                                                *)
(***************************************************************************)
EXTENDS RateLimiter, FiniteSetTheorems, TLAPS

State == [count : Nat, resetAt : Nat]

\* The request holds the answer to a hit.
Hot(r) == answer[r].count > 0

\* An open window has time left; a window that is not open is Closed.
OpenIsCurrent == \A k \in Keys : IsOpen(k) => window[k].resetAt > now

\* An answer is that of a hit, or there is none; and so it is where it will be judged.
Shape == \A r \in Requests :
  /\ answer[r] = NoAnswer \/ Hot(r)
  /\ stage[r] = "counted" => Hot(r)
  /\ Hot(r) => at[r] <= now

\* Only a hit has a time, which has come.
Clocked ==
  /\ now <= MaxTime
  /\ \A r \in Requests :
       /\ stage[r] \in {"idle", "called"} => at[r] = Never
       /\ at[r] # Never => at[r] <= now

\* A window is kept until it is over: until then the hits answered from it are
\* among those it counts.
Tracked == \A r \in Requests : Hot(r) /\ answer[r].resetAt > now =>
  /\ window[KeyOf[r]].resetAt = answer[r].resetAt
  /\ answer[r].count <= window[KeyOf[r]].count

Ordered == \A r, q \in Requests : Hot(r) /\ Hot(q) /\ SameWindow(r, q) =>
  /\ r # q => answer[r].count # answer[q].count
  /\ at[r] < at[q] => answer[r].count < answer[q].count

\* An admitted request was within the limit it read.
Within == \A r \in Requests :
  /\ stage[r] # "idle" => limit[r] \in Limits
  /\ stage[r] = "admitted" /\ Hot(r) => answer[r].count <= limit[r]

IInv == TypeOK /\ Clocked /\ OpenIsCurrent /\ Shape /\ Tracked /\ Ordered /\ Within

-----------------------------------------------------------------------------
LEMMA InitIInv == Init => IInv
<1> SUFFICES ASSUME Init PROVE IInv
  OBVIOUS
<1>1. TypeOK
  BY TimeAssumption DEF Init, InitWindows, InitLimiter, TypeOK, WindowTypeOK, LimiterTypeOK, Closed,
                        NoAnswer, Never, Stage
<1>2. \A r \in Requests : answer[r] = NoAnswer /\ ~Hot(r) /\ stage[r] = "idle"
  BY DEF Init, InitLimiter, Hot, NoAnswer
<1>3. OpenIsCurrent
  BY DEF Init, InitWindows, OpenIsCurrent, IsOpen, Closed
<1>4. Clocked
  BY TimeAssumption DEF Init, InitWindows, InitLimiter, Clocked
<1> QED BY <1>1, <1>2, <1>3, <1>4 DEF IInv, Shape, Tracked, Ordered, Within

(* A hit *)

LEMMA AfterHitType ==
  ASSUME TypeOK, NEW k \in Keys
  PROVE  AfterHit(k) \in State /\ AfterHit(k).count > 0
BY WindowAssumption DEF TypeOK, WindowTypeOK, AfterHit, IsOpen, State

\* The hit is told more than every hit of its window was told before.
LEMMA HitIsNewest ==
  ASSUME IInv, NEW r \in Requests, NEW q \in Requests, Hot(q), KeyOf[q] = KeyOf[r],
         answer[q].resetAt = AfterHit(KeyOf[r]).resetAt
  PROVE  answer[q].count < AfterHit(KeyOf[r]).count
<1> DEFINE k == KeyOf[r]
<1>1. k \in Keys /\ window[k] \in State /\ answer[q] \in State /\ now \in Nat
  BY KeyAssumption DEF IInv, TypeOK, WindowTypeOK, LimiterTypeOK, State
<1>2. CASE IsOpen(k)
  <2>1. AfterHit(k) = [window[k] EXCEPT !.count = @ + 1] /\ window[k].resetAt > now
    BY <1>1, <1>2 DEF AfterHit, IInv, OpenIsCurrent
  <2>2. AfterHit(k).resetAt = window[k].resetAt /\ AfterHit(k).count = window[k].count + 1
    BY <1>1, <2>1 DEF State
  <2>3. answer[q].count <= window[k].count
    BY <2>1, <2>2 DEF IInv, Tracked
  <2> QED BY <1>1, <2>2, <2>3 DEF State
<1>3. CASE ~IsOpen(k)
  <2>1. AfterHit(k).resetAt = now + Window
    BY <1>3 DEF AfterHit
  <2>2. answer[q].resetAt > now
    BY <1>1, <2>1, WindowAssumption
  <2>3. answer[q].count <= window[k].count
    BY <2>2 DEF IInv, Tracked
  <2> QED BY <1>1, <1>3, <2>3 DEF IsOpen, State, Hot
<1> QED BY <1>2, <1>3

\* A hit leaves a window open, as long as it was and with what was answered
\* from it among its hits.
LEMMA HitTracks ==
  ASSUME IInv, NEW r \in Requests, Hit(KeyOf[r])
  PROVE  /\ WindowTypeOK' /\ OpenIsCurrent' /\ AfterHit(KeyOf[r]).resetAt > now
         /\ \A q \in Requests : Hot(q) /\ answer[q].resetAt > now =>
              /\ window'[KeyOf[q]].resetAt = answer[q].resetAt
              /\ answer[q].count <= window'[KeyOf[q]].count
<1> DEFINE k == KeyOf[r]
           a == AfterHit(k)
<1>1. k \in Keys /\ a \in State /\ a.count > 0 /\ now \in Nat
  BY KeyAssumption, AfterHitType DEF IInv, TypeOK, WindowTypeOK
<1>2. /\ window' = [window EXCEPT ![k] = a] /\ now' = now
      /\ window'[k] = a /\ \A j \in Keys \ {k} : window'[j] = window[j]
  BY <1>1 DEF Hit, IInv, TypeOK, WindowTypeOK
<1>3. a.resetAt > now
  BY <1>1, WindowAssumption DEF IInv, OpenIsCurrent, AfterHit, State, TypeOK, WindowTypeOK
<1>4. ASSUME NEW q \in Requests, Hot(q), KeyOf[q] = k, answer[q].resetAt > now
      PROVE  a.resetAt = answer[q].resetAt /\ answer[q].count < a.count
  <2>1. window[k].resetAt = answer[q].resetAt /\ answer[q].count <= window[k].count
    BY <1>4 DEF IInv, Tracked
  <2>2. answer[q] \in State /\ window[k] \in State
    BY <1>1 DEF IInv, TypeOK, WindowTypeOK, LimiterTypeOK, State
  <2>3. IsOpen(k)
    BY <1>4, <2>1, <2>2 DEF IsOpen, Hot, State
  <2>4. a.resetAt = answer[q].resetAt
    BY <2>1, <2>2, <2>3 DEF AfterHit, State
  <2> QED BY <1>4, <2>4, HitIsNewest
<1> HIDE DEF a, k
<1>5. WindowTypeOK' /\ OpenIsCurrent'
  BY <1>1, <1>2, <1>3 DEF IInv, TypeOK, WindowTypeOK, State, OpenIsCurrent, IsOpen
<1>6. ASSUME NEW q \in Requests, Hot(q), answer[q].resetAt > now
      PROVE  /\ window'[KeyOf[q]].resetAt = answer[q].resetAt
             /\ answer[q].count <= window'[KeyOf[q]].count
  <2>1. KeyOf[q] \in Keys /\ answer[q] \in State
    BY KeyAssumption DEF IInv, TypeOK, LimiterTypeOK, State
  <2>2. CASE KeyOf[q] = k
    BY <1>1, <1>2, <1>4, <1>6, <2>1, <2>2 DEF State
  <2>3. CASE KeyOf[q] # k
    BY <1>2, <1>6, <2>1, <2>3 DEF IInv, Tracked
  <2> QED BY <2>2, <2>3
<1> QED BY <1>3, <1>5, <1>6 DEF a, k

LEMMA CountIInv == ASSUME IInv, NEW r \in Requests, Count(r) PROVE IInv'
<1> DEFINE k == KeyOf[r]
           a == AfterHit(k)
<1>1. k \in Keys /\ a \in State /\ a.count > 0 /\ now \in Nat
  BY KeyAssumption, AfterHitType DEF IInv, TypeOK, WindowTypeOK
<1>2. /\ window' = [window EXCEPT ![k] = a]
      /\ answer' = [answer EXCEPT ![r] = a]
      /\ at' = [at EXCEPT ![r] = now]
      /\ stage' = [stage EXCEPT ![r] = "counted"]
      /\ now' = now /\ flag' = flag /\ limit' = limit
      /\ stage[r] = "called"
  BY DEF Count, Counts, Hit, Goto
<1>3. /\ WindowTypeOK' /\ OpenIsCurrent' /\ a.resetAt > now
      /\ \A q \in Requests : Hot(q) /\ answer[q].resetAt > now =>
           /\ window'[KeyOf[q]].resetAt = answer[q].resetAt
           /\ answer[q].count <= window'[KeyOf[q]].count
  BY HitTracks DEF Count
<1>4. \A q \in Requests \ {r} : Hot(q) /\ KeyOf[q] = k /\ answer[q].resetAt = a.resetAt =>
        answer[q].count < a.count
  BY HitIsNewest
<1>6. /\ answer'[r] = a /\ at'[r] = now /\ stage'[r] = "counted" /\ window'[k] = a
      /\ \A q \in Requests \ {r} :
           answer'[q] = answer[q] /\ at'[q] = at[q] /\ stage'[q] = stage[q]
      /\ \A j \in Keys \ {k} : window'[j] = window[j]
  BY <1>1, <1>2 DEF IInv, TypeOK, WindowTypeOK, LimiterTypeOK
<1>7. Hot(r)' /\ \A q \in Requests \ {r} : Hot(q)' <=> Hot(q)
  BY <1>1, <1>6 DEF Hot
<1> HIDE DEF a, k
<1>8. TypeOK'
  BY <1>1, <1>2, <1>3 DEF IInv, TypeOK, LimiterTypeOK, State, Stage
<1>10. Shape'
  BY <1>1, <1>2, <1>6, <1>7 DEF IInv, Shape, NoAnswer
<1>11. Tracked'
  <2> SUFFICES ASSUME NEW q \in Requests, Hot(q)', answer'[q].resetAt > now'
               PROVE  /\ window'[KeyOf[q]].resetAt = answer'[q].resetAt
                      /\ answer'[q].count <= window'[KeyOf[q]].count
    BY DEF Tracked
  <2>1. CASE q = r
    BY <1>1, <1>6, <2>1 DEF k, State
  <2>2. CASE q # r
    BY <1>2, <1>3, <1>6, <1>7, <2>2
  <2> QED BY <2>1, <2>2
<1>12. Ordered'
  <2> SUFFICES ASSUME NEW p \in Requests, NEW q \in Requests, Hot(p)', Hot(q)', SameWindow(p, q)'
               PROVE  /\ p # q => answer'[p].count # answer'[q].count
                      /\ at'[p] < at'[q] => answer'[p].count < answer'[q].count
    BY DEF Ordered
  <2>0. /\ answer[p] \in State /\ answer[q] \in State
        /\ at[p] \in Nat /\ at[q] \in Nat
    BY DEF IInv, TypeOK, LimiterTypeOK, State
  <2>1. CASE p = r /\ q = r
    BY <1>1, <1>6, <2>1
  <2>2. CASE p = r /\ q # r
    <3>1. answer[q].count < a.count
      BY <1>4, <1>6, <1>7, <2>2 DEF SameWindow, k
    <3>2. at[q] <= now
      BY <1>7, <2>2 DEF IInv, Shape
    <3> QED BY <1>1, <1>6, <2>0, <2>2, <3>1, <3>2 DEF State
  <2>3. CASE p # r /\ q = r
    <3>1. answer[p].count < a.count
      BY <1>4, <1>6, <1>7, <2>3 DEF SameWindow, k
    <3> QED BY <1>1, <1>6, <2>0, <2>3, <3>1 DEF State
  <2>4. CASE p # r /\ q # r
    BY <1>6, <1>7, <2>4 DEF IInv, Ordered, SameWindow
  <2> QED BY <2>1, <2>2, <2>3, <2>4
<1>13. Within'
  BY <1>2, <1>6, <1>7 DEF IInv, Within
<1>14. Clocked'
  BY <1>1, <1>2, <1>6 DEF IInv, Clocked, Never
<1> QED BY <1>3, <1>8, <1>10, <1>11, <1>12, <1>13, <1>14 DEF IInv

\* Who was let through holds no answer: the hit is counted, and that is all.
LEMMA LateFacts ==
  ASSUME IInv, NEW r \in Requests, Late(r)
  PROVE  /\ ~Hot(r) /\ at' = [at EXCEPT ![r] = now] /\ stage[r] = "admitted" /\ at[r] = Never
         /\ UNCHANGED <<now, flag, stage, limit, answer>>
BY TimeAssumption DEF Late, CountedLate, Hit, IInv, Shape, Clocked, Never, TypeOK, WindowTypeOK

LEMMA LateIInv == ASSUME IInv, NEW r \in Requests, Late(r) PROVE IInv'
<1>1. /\ ~Hot(r) /\ at' = [at EXCEPT ![r] = now] /\ stage[r] = "admitted" /\ at[r] = Never
      /\ UNCHANGED <<now, flag, stage, limit, answer>>
  BY LateFacts
<1>2. now \in Nat /\ at \in [Requests -> Nat]
  BY DEF IInv, TypeOK, WindowTypeOK, LimiterTypeOK
<1>3. /\ at'[r] = now /\ \A q \in Requests \ {r} : at'[q] = at[q]
      /\ \A q \in Requests : Hot(q)' <=> Hot(q)
  BY <1>1, <1>2 DEF Hot
<1>4. /\ WindowTypeOK' /\ OpenIsCurrent'
      /\ \A q \in Requests : Hot(q) /\ answer[q].resetAt > now =>
           /\ window'[KeyOf[q]].resetAt = answer[q].resetAt
           /\ answer[q].count <= window'[KeyOf[q]].count
  BY HitTracks DEF Late
<1>5. TypeOK'
  BY <1>1, <1>2, <1>4 DEF IInv, TypeOK, LimiterTypeOK
<1>6. Clocked'
  BY <1>1, <1>2, <1>3 DEF IInv, Clocked
<1>7. Shape' /\ Within'
  BY <1>1, <1>3 DEF IInv, Shape, Within
<1>8. Tracked'
  BY <1>1, <1>3, <1>4 DEF Tracked
<1>9. Ordered'
  BY <1>1, <1>3 DEF IInv, Ordered, SameWindow
<1> QED BY <1>4, <1>5, <1>6, <1>7, <1>8, <1>9 DEF IInv

-----------------------------------------------------------------------------
(* The other steps *)

LEMMA TickIInv == ASSUME IInv, Tick, UNCHANGED limiter PROVE IInv'
<1>1. /\ now' = now + 1 /\ now \in Nat /\ now < MaxTime
      /\ UNCHANGED <<flag, stage, limit, answer, at>>
      /\ window' = [k \in Keys |-> IF window[k].resetAt <= now' THEN Closed ELSE window[k]]
  BY DEF Tick, limiter, local, IInv, TypeOK, WindowTypeOK
<1>2. window' \in [Keys -> State]
  BY <1>1 DEF IInv, TypeOK, WindowTypeOK, Closed, State
<1>3. TypeOK'
  BY <1>1, <1>2 DEF IInv, TypeOK, WindowTypeOK, LimiterTypeOK, State
<1>4. OpenIsCurrent'
  BY <1>1, <1>2 DEF IInv, TypeOK, WindowTypeOK, OpenIsCurrent, IsOpen, Closed, State
<1>5. Shape' /\ Clocked'
  BY <1>1, TimeAssumption DEF IInv, TypeOK, LimiterTypeOK, Shape, Clocked, Hot
<1>6. Tracked'
  <2> SUFFICES ASSUME NEW r \in Requests, Hot(r), answer[r].resetAt > now'
               PROVE  /\ window'[KeyOf[r]].resetAt = answer[r].resetAt
                      /\ answer[r].count <= window'[KeyOf[r]].count
    BY <1>1 DEF Tracked, Hot
  <2>1. KeyOf[r] \in Keys /\ answer[r] \in State
    BY KeyAssumption DEF IInv, TypeOK, LimiterTypeOK, State
  <2>2. /\ window[KeyOf[r]].resetAt = answer[r].resetAt
        /\ answer[r].count <= window[KeyOf[r]].count
    BY <1>1, <2>1 DEF IInv, Tracked, State
  <2>3. window'[KeyOf[r]] = window[KeyOf[r]]
    BY <1>1, <2>1, <2>2 DEF State
  <2> QED BY <2>2, <2>3
<1>7. Ordered' /\ Within'
  BY <1>1 DEF IInv, Ordered, Within, Hot, SameWindow
<1> QED BY <1>3, <1>4, <1>5, <1>6, <1>7 DEF IInv

LEMMA CallIInv ==
  ASSUME IInv, NEW r \in Requests, NEW i \in Instances, Call(r, i), UNCHANGED clock
  PROVE  IInv'
<1>0. flag[i] \in Limits
  BY DEF IInv, TypeOK, LimiterTypeOK
<1>1. TypeOK'
  BY <1>0 DEF IInv, TypeOK, WindowTypeOK, LimiterTypeOK, Call, Goto, clock, Stage
<1>2. Within' /\ Clocked'
  BY <1>0 DEF IInv, TypeOK, LimiterTypeOK, Within, Clocked, Call, Goto, Hot, clock
<1> QED BY <1>1, <1>2 DEF IInv, TypeOK, LimiterTypeOK, Call, Goto, clock, OpenIsCurrent, IsOpen,
                          Shape, Hot, Tracked, Ordered, SameWindow

LEMMA DecideIInv == ASSUME IInv, NEW r \in Requests, Decide(r), UNCHANGED clock PROVE IInv'
<1>1. TypeOK'
  BY DEF IInv, TypeOK, WindowTypeOK, LimiterTypeOK, Decide, Goto, clock, Stage
<1>2. Within' /\ Clocked'
  <2>1. limit[r] \in Limits /\ limit[r] \in Nat /\ answer[r].count \in Nat
    BY LimitAssumption DEF IInv, Within, TypeOK, LimiterTypeOK, Decide
  <2>2. stage'[r] = "admitted" => answer[r].count <= limit[r]
    BY <2>1 DEF IInv, TypeOK, LimiterTypeOK, Decide, Goto
  <2> QED BY <2>1, <2>2 DEF IInv, TypeOK, LimiterTypeOK, Within, Clocked, Decide, Goto, Hot, clock
<1> QED BY <1>1, <1>2 DEF IInv, TypeOK, LimiterTypeOK, Decide, Goto, clock, OpenIsCurrent, IsOpen,
                          Shape, Hot, Tracked, Ordered, SameWindow

LEMMA FailIInv == ASSUME IInv, NEW r \in Requests, Fail(r), UNCHANGED clock PROVE IInv'
<1>1. /\ answer' = [answer EXCEPT ![r] = NoAnswer] /\ stage' = [stage EXCEPT ![r] = "admitted"]
      /\ stage[r] \in {"called", "counted"} /\ UNCHANGED <<now, window, flag, limit, at>>
  BY DEF Fail, Goto, clock
<1>2. answer'[r] = NoAnswer /\ ~Hot(r)'
  BY <1>1 DEF IInv, TypeOK, LimiterTypeOK, Hot, NoAnswer
<1>3. \A q \in Requests \ {r} : answer'[q] = answer[q] /\ (Hot(q)' <=> Hot(q)) /\ stage'[q] = stage[q]
  BY <1>1 DEF IInv, TypeOK, LimiterTypeOK, Hot
<1>4. TypeOK'
  BY <1>1 DEF IInv, TypeOK, WindowTypeOK, LimiterTypeOK, Stage, NoAnswer
<1>5. stage'[r] = "admitted"
  BY <1>1 DEF IInv, TypeOK, LimiterTypeOK
<1>6. OpenIsCurrent' /\ Shape' /\ Tracked' /\ Within' /\ Clocked'
  BY <1>1, <1>2, <1>3, <1>5 DEF IInv, OpenIsCurrent, IsOpen, Shape, Tracked, Within, Clocked
<1>7. Ordered'
  BY <1>1, <1>2, <1>3 DEF IInv, Ordered, SameWindow
<1> QED BY <1>4, <1>6, <1>7 DEF IInv

LEMMA StepIInv == IInv /\ [Next]_vars => IInv'
<1> SUFFICES ASSUME IInv, [Next]_vars PROVE IInv'
  OBVIOUS
<1>1. ASSUME NEW i \in Instances, NEW n \in Limits, SetLimit(i, n), UNCHANGED clock PROVE IInv'
  <2>1. flag' \in [Instances -> Limits]
    BY <1>1 DEF SetLimit, IInv, TypeOK, LimiterTypeOK
  <2> QED BY <1>1, <2>1 DEF SetLimit, clock, local, IInv, TypeOK, WindowTypeOK, LimiterTypeOK,
                            OpenIsCurrent, IsOpen, Shape, Hot, Tracked, Ordered, SameWindow, Within, Clocked
<1>2. CASE UNCHANGED vars
  BY <1>2 DEF vars, clock, limiter, local, IInv, TypeOK, WindowTypeOK, LimiterTypeOK, OpenIsCurrent,
              IsOpen, Shape, Hot, Tracked, Ordered, SameWindow, Within, Clocked
<1>3. ASSUME Moves, UNCHANGED clock PROVE IInv'
  BY <1>1, <1>3, CallIInv, DecideIInv, FailIInv DEF Moves
<1> QED BY <1>2, <1>3, CountIInv, LateIInv, TickIInv DEF Next

LEMMA IInvCorrect == RateSpec => []IInv
BY InitIInv, StepIInv, PTL DEF RateSpec

\* Every variable stays within its type.
THEOREM TypeCorrect == RateSpec => []TypeOK
<1>1. IInv => TypeOK
  BY DEF IInv
<1> QED BY <1>1, IInvCorrect, PTL

-----------------------------------------------------------------------------
LEMMA CountedIsHot ==
  ASSUME IInv, NEW r \in Requests, Counted(r)
  PROVE  Hot(r)
BY DEF IInv, Shape, Counted, Judged

\* No two hits of one window are told the same count, and the later is told
\* the larger one, however many requests there are and in whatever order the
\* answers of the store arrive.
THEOREM CountsAreDistinctCorrect == RateSpec => []CountsAreDistinct
<1>1. IInv => CountsAreDistinct
  BY CountedIsHot DEF CountsAreDistinct, IInv, Ordered
<1> QED BY <1>1, IInvCorrect, PTL

\* Admitted requests of one window are told different counts up to the limit,
\* so there are no more of them than that.
LEMMA WithinWindow ==
  ASSUME IInv, NEW r \in Requests
  PROVE  LET S == {q \in Requests : Admitted(q) /\ SameWindow(q, r)}
         IN  Cardinality(S) <= Largest
<1> DEFINE S == {q \in Requests : Admitted(q) /\ SameWindow(q, r)}
           f == [q \in S |-> answer[q].count]
<1>1. Largest \in Limits /\ Largest \in Nat /\ \A m \in Limits : m <= Largest
  BY LimitAssumption DEF Largest
<1>2. ASSUME NEW q \in S PROVE answer[q].count \in 1..Largest
  <2>1. Hot(q) /\ answer[q].count \in Nat /\ limit[q] \in Limits /\ answer[q].count <= limit[q]
    BY <1>2 DEF IInv, TypeOK, LimiterTypeOK, Shape, Within, Admitted, Judged
  <2>2. limit[q] \in Nat /\ limit[q] <= Largest /\ answer[q].count > 0
    BY <1>1, <2>1, LimitAssumption DEF Hot
  <2> QED BY <1>1, <2>1, <2>2
<1>3. ASSUME NEW p \in S, NEW q \in S, f[p] = f[q] PROVE p = q
  <2>1. Hot(p) /\ Hot(q) /\ SameWindow(p, q)
    BY <1>3 DEF IInv, Shape, Admitted, Judged, SameWindow
  <2> QED BY <1>3, <2>1 DEF IInv, Ordered
<1>4. f \in Injection(S, 1..Largest)
  BY <1>2, <1>3 DEF Injection, IsInjective
<1>5. IsFiniteSet(1..Largest) /\ Cardinality(1..Largest) = Largest
  BY <1>1, FS_Interval
<1>6. Cardinality(S) <= Cardinality(1..Largest)
  BY <1>4, <1>5, FS_Injection
<1> QED BY <1>5, <1>6

\* Within one window no more requests are admitted by the store's count than
\* the largest value the flag had, whatever the interleaving.
THEOREM WindowLimitCorrect == RateSpec => []WindowLimit
<1>1. IInv => WindowLimit
  BY WithinWindow DEF WindowLimit
<1> QED BY <1>1, IInvCorrect, PTL

-----------------------------------------------------------------------------
(* When the hits of a window were counted *)

\* Two windows of a key are the same, or the later opens when the earlier is
\* over.  A hit is counted while its window lasts, the first one as it opens.
Timed ==
  /\ \A k \in Keys : IsOpen(k) => window[k].resetAt <= now + Window
  /\ \A r \in Requests : Hot(r) =>
       /\ at[r] < answer[r].resetAt /\ answer[r].resetAt <= at[r] + Window
       /\ answer[r].count = 1 => answer[r].resetAt = at[r] + Window

Spaced ==
  /\ \A r \in Requests : Hot(r) /\ IsOpen(KeyOf[r]) =>
       \/ answer[r].resetAt = window[KeyOf[r]].resetAt
       \/ answer[r].resetAt + Window <= window[KeyOf[r]].resetAt
  /\ \A r, q \in Requests : Hot(r) /\ Hot(q) /\ KeyOf[r] = KeyOf[q] =>
       \/ answer[r].resetAt = answer[q].resetAt
       \/ answer[r].resetAt + Window <= answer[q].resetAt
       \/ answer[q].resetAt + Window <= answer[r].resetAt

TInv == IInv /\ Timed /\ Spaced

LEMMA InitTInv == Init => TInv
<1> SUFFICES ASSUME Init PROVE TInv
  OBVIOUS
<1>1. (\A r \in Requests : ~Hot(r)) /\ \A k \in Keys : ~IsOpen(k)
  BY DEF Init, InitWindows, InitLimiter, Hot, Closed, NoAnswer, IsOpen
<1> QED BY <1>1, InitIInv DEF TInv, Timed, Spaced

\* A hit falls into its window, and the windows of the key before it are over
\* when it opens.
LEMMA HitTimed ==
  ASSUME TInv, NEW r \in Requests
  PROVE  LET a == AfterHit(KeyOf[r])
         IN  /\ now < a.resetAt /\ a.resetAt <= now + Window
             /\ a.count = 1 => a.resetAt = now + Window
             /\ \A q \in Requests : Hot(q) /\ KeyOf[q] = KeyOf[r] =>
                  answer[q].resetAt = a.resetAt \/ answer[q].resetAt + Window <= a.resetAt
<1> DEFINE k == KeyOf[r]
           a == AfterHit(k)
<1>1. /\ k \in Keys /\ a \in State /\ a.count > 0 /\ now \in Nat /\ window[k] \in State
      /\ Window \in Nat /\ Window > 0
  BY KeyAssumption, AfterHitType, WindowAssumption DEF TInv, IInv, TypeOK, WindowTypeOK, State
<1>2. /\ now < a.resetAt /\ a.resetAt <= now + Window
      /\ a.count = 1 => a.resetAt = now + Window
  <2>1. CASE IsOpen(k)
    <3>1. window[k].resetAt > now /\ window[k].resetAt <= now + Window
      BY <1>1, <2>1 DEF TInv, IInv, OpenIsCurrent, Timed
    <3>2. a.resetAt = window[k].resetAt /\ a.count = window[k].count + 1 /\ window[k].count > 0
      BY <1>1, <2>1 DEF AfterHit, IsOpen, State
    <3> QED BY <1>1, <3>1, <3>2 DEF State
  <2>2. CASE ~IsOpen(k)
    BY <1>1, <2>2 DEF AfterHit
  <2> QED BY <2>1, <2>2
<1>3. ASSUME NEW q \in Requests, Hot(q), KeyOf[q] = k
      PROVE  answer[q].resetAt = a.resetAt \/ answer[q].resetAt + Window <= a.resetAt
  <2>0. answer[q] \in State
    BY DEF TInv, IInv, TypeOK, LimiterTypeOK, State
  <2>1. CASE IsOpen(k)
    <3>1. a.resetAt = window[k].resetAt
      BY <1>1, <2>1 DEF AfterHit, State
    <3> QED BY <1>3, <2>1, <3>1 DEF TInv, Spaced
  <2>2. CASE ~IsOpen(k)
    <3>1. a.resetAt = now + Window
      BY <2>2 DEF AfterHit
    <3>2. ~(answer[q].resetAt > now)
      BY <1>1, <1>3, <2>0, <2>2 DEF TInv, IInv, Tracked, IsOpen, Hot, State
    <3> QED BY <1>1, <2>0, <3>1, <3>2 DEF State
  <2> QED BY <2>1, <2>2
<1> QED BY <1>2, <1>3

LEMMA CountTInv == ASSUME TInv, NEW r \in Requests, Count(r) PROVE TInv'
<1> DEFINE k == KeyOf[r]
           a == AfterHit(k)
<1>1. k \in Keys /\ \A q \in Requests : KeyOf[q] \in Keys
  BY KeyAssumption
<1>2. IInv'
  BY CountIInv DEF TInv
<1>3. /\ answer' = [answer EXCEPT ![r] = a] /\ at' = [at EXCEPT ![r] = now]
      /\ window' = [window EXCEPT ![k] = a] /\ now' = now
  BY DEF Count, Counts, Hit
<1>4. /\ answer'[r] = a /\ at'[r] = now /\ window'[k] = a
      /\ \A q \in Requests \ {r} : answer'[q] = answer[q] /\ at'[q] = at[q] /\ (Hot(q)' <=> Hot(q))
      /\ \A j \in Keys \ {k} : window'[j] = window[j] /\ (IsOpen(j)' <=> IsOpen(j))
  BY <1>1, <1>3 DEF TInv, IInv, TypeOK, WindowTypeOK, LimiterTypeOK, Hot, IsOpen
<1>5. /\ now < a.resetAt /\ a.resetAt <= now + Window
      /\ a.count = 1 => a.resetAt = now + Window
      /\ \A q \in Requests : Hot(q) /\ KeyOf[q] = k =>
           answer[q].resetAt = a.resetAt \/ answer[q].resetAt + Window <= a.resetAt
  BY HitTimed
<1> HIDE DEF a
<1>6. Timed'
  <2>1. ASSUME NEW j \in Keys, IsOpen(j)' PROVE window'[j].resetAt <= now' + Window
    BY <1>3, <1>4, <1>5, <2>1 DEF TInv, Timed
  <2>2. ASSUME NEW q \in Requests, Hot(q)'
        PROVE  /\ at'[q] < answer'[q].resetAt /\ answer'[q].resetAt <= at'[q] + Window
               /\ answer'[q].count = 1 => answer'[q].resetAt = at'[q] + Window
    BY <1>4, <1>5, <2>2 DEF TInv, Timed
  <2> QED BY <2>1, <2>2 DEF Timed
<1>7. Spaced'
  <2>1. ASSUME NEW q \in Requests, Hot(q)', IsOpen(KeyOf[q])'
        PROVE  \/ answer'[q].resetAt = window'[KeyOf[q]].resetAt
               \/ answer'[q].resetAt + Window <= window'[KeyOf[q]].resetAt
    <3>1. CASE KeyOf[q] = k
      BY <1>4, <1>5, <2>1, <3>1
    <3>2. CASE KeyOf[q] # k
      BY <1>1, <1>4, <2>1, <3>2 DEF TInv, Spaced
    <3> QED BY <3>1, <3>2
  <2>2. ASSUME NEW p \in Requests, NEW q \in Requests, Hot(p)', Hot(q)', KeyOf[p] = KeyOf[q]
        PROVE  \/ answer'[p].resetAt = answer'[q].resetAt
               \/ answer'[p].resetAt + Window <= answer'[q].resetAt
               \/ answer'[q].resetAt + Window <= answer'[p].resetAt
    BY <1>4, <1>5, <2>2 DEF TInv, Spaced
  <2> QED BY <2>1, <2>2 DEF Spaced
<1> QED BY <1>2, <1>6, <1>7 DEF TInv

\* A hit that nobody is told of opens or lengthens a count all the same.
LEMMA LateTInv == ASSUME TInv, NEW r \in Requests, Late(r) PROVE TInv'
<1> DEFINE k == KeyOf[r]
           a == AfterHit(k)
<1>1. /\ ~Hot(r) /\ at' = [at EXCEPT ![r] = now] /\ UNCHANGED <<now, answer>>
      /\ window' = [window EXCEPT ![k] = a]
  BY LateFacts DEF TInv, Late, Hit
<1>2. /\ k \in Keys /\ window'[k] = a /\ \A q \in Requests : KeyOf[q] \in Keys
      /\ \A j \in Keys \ {k} : window'[j] = window[j] /\ (IsOpen(j)' <=> IsOpen(j))
      /\ \A q \in Requests : Hot(q)' => Hot(q) /\ q # r /\ at'[q] = at[q]
  BY <1>1, KeyAssumption DEF TInv, IInv, TypeOK, WindowTypeOK, LimiterTypeOK, IsOpen, Hot
<1>3. /\ now < a.resetAt /\ a.resetAt <= now + Window
      /\ \A q \in Requests : Hot(q) /\ KeyOf[q] = k =>
           answer[q].resetAt = a.resetAt \/ answer[q].resetAt + Window <= a.resetAt
  BY HitTimed
<1> HIDE DEF a
<1>4. Timed'
  BY <1>1, <1>2, <1>3 DEF TInv, Timed
<1>5. Spaced'
  <2>1. ASSUME NEW q \in Requests, Hot(q)', IsOpen(KeyOf[q])'
        PROVE  \/ answer'[q].resetAt = window'[KeyOf[q]].resetAt
               \/ answer'[q].resetAt + Window <= window'[KeyOf[q]].resetAt
    BY <1>1, <1>2, <1>3, <2>1 DEF TInv, Spaced
  <2> QED BY <1>1, <1>2, <2>1 DEF TInv, Spaced
<1> QED BY <1>4, <1>5, LateIInv DEF TInv

LEMMA TickTInv == ASSUME TInv, Tick, UNCHANGED limiter PROVE TInv'
<1>1. /\ now' = now + 1 /\ now \in Nat /\ UNCHANGED <<answer, at>>
      /\ window' = [k \in Keys |-> IF window[k].resetAt <= now' THEN Closed ELSE window[k]]
  BY DEF Tick, limiter, local, TInv, IInv, TypeOK, WindowTypeOK
<1>2. \A k \in Keys : IsOpen(k)' => IsOpen(k) /\ window'[k] = window[k]
  BY <1>1 DEF IsOpen, Closed
<1>3. (\A k \in Keys : window[k].resetAt \in Nat) /\ \A q \in Requests : KeyOf[q] \in Keys
  BY KeyAssumption DEF TInv, IInv, TypeOK, WindowTypeOK
<1>4. Timed'
  BY <1>1, <1>2, <1>3, WindowAssumption DEF TInv, Timed, Hot
<1>5. Spaced'
  BY <1>1, <1>2, <1>3 DEF TInv, Spaced, Hot
<1> QED BY <1>4, <1>5, TickIInv DEF TInv

LEMMA FailTInv == ASSUME TInv, NEW r \in Requests, Fail(r), UNCHANGED clock PROVE TInv'
<1>1. answer' = [answer EXCEPT ![r] = NoAnswer] /\ UNCHANGED <<now, window, at>>
  BY DEF Fail, clock
<1>2. \A q \in Requests : Hot(q)' => Hot(q) /\ answer'[q] = answer[q]
  BY <1>1 DEF TInv, IInv, TypeOK, LimiterTypeOK, Hot, NoAnswer
<1>3. Timed' /\ Spaced'
  BY <1>1, <1>2 DEF TInv, Timed, Spaced, IsOpen
<1> QED BY <1>3, FailIInv DEF TInv

LEMMA StepTInv == TInv /\ [Next]_vars => TInv'
<1> SUFFICES ASSUME TInv, [Next]_vars PROVE TInv'
  OBVIOUS
<1>1. IInv'
  BY StepIInv DEF TInv
<1>2. ASSUME UNCHANGED <<now, window, answer, at>> PROVE TInv'
  BY <1>1, <1>2 DEF TInv, Timed, Spaced, Hot, IsOpen
<1>3. ASSUME Moves, UNCHANGED clock PROVE TInv'
  <2>1. ASSUME NEW r \in Requests, Decide(r) PROVE TInv'
    BY <1>2, <1>3, <2>1 DEF Decide, clock
  <2>2. ASSUME NEW r \in Requests, NEW i \in Instances, Call(r, i) PROVE TInv'
    BY <1>2, <1>3, <2>2 DEF Call, clock
  <2>3. ASSUME NEW i \in Instances, NEW n \in Limits, SetLimit(i, n) PROVE TInv'
    BY <1>2, <1>3, <2>3 DEF SetLimit, clock, local
  <2> QED BY <1>3, <2>1, <2>2, <2>3, FailTInv DEF Moves
<1>4. CASE UNCHANGED vars
  BY <1>2, <1>4 DEF vars, clock, limiter, local
<1> QED BY <1>3, <1>4, CountTInv, LateTInv, TickTInv DEF Next

LEMMA TInvCorrect == RateSpec => []TInv
BY InitTInv, StepTInv, PTL DEF RateSpec

\* The hits of Window ticks in a row fall into at most two windows, and the
\* first hit of the earlier one is not among them unless it is the only one.
During(k, t) == {r \in Requests : Hot(r) /\ KeyOf[r] = k /\ at[r] \in t..(t + Window - 1)}

LEMMA TwoWindows ==
  ASSUME TInv, NEW k \in Keys, NEW t \in Nat,
         NEW p \in During(k, t), NEW q \in During(k, t), NEW s \in During(k, t),
         answer[p].resetAt < answer[q].resetAt
  PROVE  \/ answer[s].resetAt = answer[p].resetAt /\ answer[s].count # 1
         \/ answer[s].resetAt = answer[q].resetAt
<1>1. \A r \in During(k, t) :
        /\ answer[r].resetAt \in Nat /\ answer[r].count \in Nat /\ at[r] \in Nat
        /\ t <= at[r] /\ at[r] <= t + Window - 1
        /\ at[r] < answer[r].resetAt /\ answer[r].resetAt <= at[r] + Window
        /\ answer[r].count = 1 => answer[r].resetAt = at[r] + Window
  BY WindowAssumption DEF During, TInv, IInv, TypeOK, LimiterTypeOK, Timed
<1>2. \A r, u \in During(k, t) : \/ answer[r].resetAt = answer[u].resetAt
                                 \/ answer[r].resetAt + Window <= answer[u].resetAt
                                 \/ answer[u].resetAt + Window <= answer[r].resetAt
  BY DEF During, TInv, Spaced
<1> QED BY <1>1, <1>2, WindowAssumption

LEMMA LargestType == /\ Largest \in Nat /\ Largest > 0
                     /\ \A m \in Limits : m <= Largest
<1>1. Largest \in Limits /\ \A m \in Limits : m <= Largest
  BY LimitAssumption DEF Largest
<1> QED BY <1>1, LimitAssumption

LEMMA AdmittedCount ==
  ASSUME IInv, NEW r \in Requests, Admitted(r)
  PROVE  Hot(r) /\ answer[r].count \in 1..Largest
<1>1. Hot(r) /\ answer[r].count \in Nat /\ limit[r] \in Limits /\ answer[r].count <= limit[r]
  BY DEF IInv, TypeOK, LimiterTypeOK, Shape, Within, Admitted, Judged
<1>2. limit[r] \in Nat /\ limit[r] <= Largest /\ answer[r].count > 0
  BY <1>1, LimitAssumption, LargestType DEF Hot
<1> QED BY <1>1, <1>2, LargestType

LEMMA WithinTicks ==
  ASSUME TInv, NEW k \in Keys, NEW t \in Nat
  PROVE  LET S == {r \in Requests : Admitted(r) /\ KeyOf[r] = k /\ at[r] \in t..(t + Window - 1)}
         IN  Cardinality(S) <= 2 * Largest - 1
<1> DEFINE S == {r \in Requests : Admitted(r) /\ KeyOf[r] = k /\ at[r] \in t..(t + Window - 1)}
<1>1. /\ S \subseteq During(k, t)
      /\ \A r \in S : /\ answer[r].count \in Nat /\ 1 <= answer[r].count /\ answer[r].count <= Largest
                      /\ answer[r].resetAt \in Nat
  BY AdmittedCount, LargestType DEF TInv, IInv, TypeOK, LimiterTypeOK, During
<1>2. \A r, u \in S : answer[r].resetAt = answer[u].resetAt /\ answer[r].count = answer[u].count => r = u
  BY <1>1 DEF TInv, IInv, Ordered, SameWindow, During
<1>3. /\ IsFiniteSet(1..(2 * Largest - 1))
      /\ Cardinality(1..(2 * Largest - 1)) = 2 * Largest - 1
  BY LargestType, FS_Interval
<1>4. ASSUME NEW g \in Injection(S, 1..(2 * Largest - 1)) PROVE Cardinality(S) <= 2 * Largest - 1
  BY <1>3, FS_Injection
<1>5. CASE \A p, q \in S : answer[p].resetAt = answer[q].resetAt
  <2> DEFINE g == [r \in S |-> answer[r].count]
  <2>1. \A r \in S : g[r] \in 1..(2 * Largest - 1)
    BY <1>1, LargestType
  <2>2. \A r, u \in S : g[r] = g[u] => r = u
    BY <1>2, <1>5
  <2>3. g \in Injection(S, 1..(2 * Largest - 1))
    BY <2>1, <2>2 DEF Injection, IsInjective
  <2> QED BY <1>4, <2>3
<1>6. CASE \E p, q \in S : answer[p].resetAt # answer[q].resetAt
  <2>1. PICK p \in S, q \in S : answer[p].resetAt < answer[q].resetAt
    BY <1>1, <1>6
  <2> DEFINE g == [r \in S |-> IF answer[r].resetAt = answer[p].resetAt
                                 THEN Largest + answer[r].count - 1 ELSE answer[r].count]
  <2>2. \A r \in S : \/ answer[r].resetAt = answer[p].resetAt /\ answer[r].count # 1
                     \/ answer[r].resetAt = answer[q].resetAt
    BY <1>1, <2>1, TwoWindows
  <2>3. ASSUME NEW r \in S
        PROVE  /\ g[r] \in Nat /\ 1 <= g[r] /\ g[r] <= 2 * Largest - 1
               /\ g[r] > Largest <=> answer[r].resetAt = answer[p].resetAt
    <3>1. /\ answer[r].count \in Nat /\ 1 <= answer[r].count /\ answer[r].count <= Largest
          /\ Largest \in Nat /\ Largest > 0
      BY <1>1, LargestType
    <3>2. CASE answer[r].resetAt = answer[p].resetAt
      <4>1. g[r] = Largest + answer[r].count - 1 /\ answer[r].count # 1
        BY <1>1, <2>1, <2>2, <3>2
      <4> QED BY <3>1, <3>2, <4>1
    <3>3. CASE answer[r].resetAt # answer[p].resetAt
      <4>1. g[r] = answer[r].count
        BY <3>3
      <4> QED BY <3>1, <3>3, <4>1
    <3> QED BY <3>2, <3>3
  <2>4. ASSUME NEW r \in S PROVE g[r] \in 1..(2 * Largest - 1)
    <3> HIDE DEF g
    <3> QED BY <2>3, LargestType
  <2>5. ASSUME NEW r \in S, NEW u \in S, g[r] = g[u] PROVE r = u
    <3>1. answer[r].resetAt = answer[p].resetAt <=> answer[u].resetAt = answer[p].resetAt
      BY <2>3, <2>5
    <3>2. answer[r].resetAt = answer[u].resetAt
      BY <2>2, <3>1
    <3>3. answer[r].count = answer[u].count
      BY <1>1, <2>5, <3>1, LargestType
    <3> QED BY <1>2, <3>2, <3>3
  <2>6. g \in Injection(S, 1..(2 * Largest - 1))
    BY <2>4, <2>5 DEF Injection, IsInjective
  <2> QED BY <1>4, <2>6
<1> QED BY <1>5, <1>6

\* In any Window ticks in a row a key gets at most one request short of twice
\* the limit through by the count of the store: the window is fixed, not
\* sliding, and that is all it costs.
THEOREM SlidingLimitCorrect == RateSpec => []SlidingLimit
<1>1. TInv => SlidingLimit
  BY WithinTicks, TimeAssumption DEF SlidingLimit
<1> QED BY <1>1, TInvCorrect, PTL

-----------------------------------------------------------------------------
(* What a refusal rests on *)

\* The store has counted the hit of the request.
Seen(q) == at[q] # Never

\* The hits in the window of a key, and those that came before the hit of r,
\* as RefusalIsJustified counts them.
Inside(k) == {q \in Requests : KeyOf[q] = k /\ Seen(q) /\ window[k].resetAt <= at[q] + Window}
Earlier(r) == {q \in Requests : KeyOf[q] = KeyOf[r] /\ q # r
                                /\ at[q] <= at[r] /\ at[r] < at[q] + Window}

\* Only finitely many requests have come.
Came == {q \in Requests : stage[q] # "idle"}
Started == IsFiniteSet(Came)

\* A count is never larger than the number of requests that made it.
Filled == \A k \in Keys : IsOpen(k) => Cardinality(Inside(k)) >= window[k].count
Preceded == \A r \in Requests : Hot(r) => Cardinality(Earlier(r)) >= answer[r].count - 1

\* A refused request was told a count above the limit it read.
Refused == \A r \in Requests : stage[r] = "refused" => Hot(r) /\ answer[r].count > limit[r]

JInv == TInv /\ Started /\ Filled /\ Preceded /\ Refused

LEMMA InitJInv == Init => JInv
<1> SUFFICES ASSUME Init PROVE JInv
  OBVIOUS
<1>1. Came = {}
  BY DEF Init, InitLimiter, Came
<1>2. (\A r \in Requests : ~Hot(r) /\ stage[r] = "idle") /\ \A k \in Keys : ~IsOpen(k)
  BY DEF Init, InitWindows, InitLimiter, Hot, Closed, NoAnswer, IsOpen
<1> QED BY <1>1, <1>2, InitTInv, FS_EmptySet DEF JInv, Started, Filled, Preceded, Refused

\* What is seen has come, and has its time; a window's hits are such, and so
\* are those that came before an answered one.
LEMMA PartsCame ==
  ASSUME TInv
  PROVE  /\ Never \in Nat /\ now \in Nat /\ now < Never /\ at \in [Requests -> Nat]
         /\ \A q \in Requests : Seen(q) => q \in Came /\ at[q] <= now
         /\ \A k \in Keys : Inside(k) \subseteq Came
         /\ \A r \in Requests : Seen(r) => Earlier(r) \subseteq Came
<1>1. /\ Never \in Nat /\ now \in Nat /\ now < Never /\ at \in [Requests -> Nat]
  BY TimeAssumption DEF Never, TInv, IInv, Clocked, TypeOK, WindowTypeOK, LimiterTypeOK
<1>2. \A q \in Requests : Seen(q) => q \in Came /\ at[q] <= now
  BY DEF TInv, IInv, Clocked, Seen, Came
<1>3. \A r \in Requests : \A q \in Earlier(r) : Seen(r) => Seen(q)
  BY <1>1, <1>2 DEF Earlier, Seen
<1> QED BY <1>1, <1>2, <1>3 DEF Inside, Earlier

\* What was seen stays seen, at the time it had.
LEMMA SeenStays ==
  ASSUME JInv, [Next]_vars
  PROVE  Started' /\ \A q \in Requests : Seen(q) => Seen(q)' /\ at'[q] = at[q]
<1>1. /\ stage \in [Requests -> Stage] /\ at \in [Requests -> Nat] /\ IsFiniteSet(Came)
      /\ now # Never /\ \A q \in Requests : Seen(q) => stage[q] # "called"
  BY PartsCame DEF JInv, Started, TInv, IInv, TypeOK, LimiterTypeOK, Clocked, Seen
<1>2. ASSUME NEW r \in Requests, NEW i \in Instances, Call(r, i) PROVE Came' = Came \cup {r}
  BY <1>1, <1>2 DEF Call, Goto, Came
<1>3. ASSUME \A r \in Requests, i \in Instances : ~Call(r, i) PROVE Came' \subseteq Came
  <2>1. ASSUME NEW r \in Requests, Count(r) \/ Decide(r) \/ Fail(r) PROVE Came' \subseteq Came
    BY <1>1, <2>1 DEF Count, Counts, Fail, Decide, Goto, Came
  <2>2. ASSUME stage' = stage PROVE Came' \subseteq Came
    BY <2>2 DEF Came
  <2> QED BY <1>3, <2>1, <2>2 DEF Next, Moves, Late, CountedLate, SetLimit, vars, limiter, local
<1>4. IsFiniteSet(Came')
  <2>1. CASE \E r \in Requests, i \in Instances : Call(r, i)
    BY <1>1, <1>2, <2>1, FS_AddElement
  <2>2. CASE \A r \in Requests, i \in Instances : ~Call(r, i)
    BY <1>1, <1>3, <2>2, FS_Subset
  <2> QED BY <2>1, <2>2
<1>5. ASSUME NEW q \in Requests, Seen(q) PROVE at'[q] = at[q]
  <2>1. ASSUME NEW r \in Requests, Count(r) PROVE at'[q] = at[q]
    BY <1>1, <1>5, <2>1 DEF Count, Counts
  <2>2. ASSUME NEW r \in Requests, Late(r) PROVE at'[q] = at[q]
    BY <1>1, <1>5, <2>2 DEF Late, CountedLate, Seen
  <2>3. ASSUME NEW r \in Requests, Decide(r) \/ Fail(r) PROVE at'[q] = at[q]
    BY <2>3 DEF Decide, Fail
  <2>4. ASSUME NEW r \in Requests, NEW i \in Instances, Call(r, i) PROVE at'[q] = at[q]
    BY <2>4 DEF Call
  <2> QED BY <2>1, <2>2, <2>3, <2>4 DEF Next, Moves, SetLimit, vars, limiter, local
<1> QED BY <1>4, <1>5 DEF Started, Seen, Never

\* So the sets that are counted are finite and only grow, as long as their
\* window stays.
LEMMA PartsGrow ==
  ASSUME JInv, TInv', [Next]_vars
  PROVE  /\ \A k \in Keys :
              /\ IsFiniteSet(Inside(k)) /\ IsFiniteSet(Inside(k)')
              /\ Cardinality(Inside(k)) \in Nat /\ Cardinality(Inside(k)') \in Nat
              /\ window'[k].resetAt = window[k].resetAt =>
                   /\ Inside(k) \subseteq Inside(k)'
                   /\ Cardinality(Inside(k)) <= Cardinality(Inside(k)')
         /\ \A r \in Requests : Seen(r)' =>
              IsFiniteSet(Earlier(r)') /\ Cardinality(Earlier(r)') \in Nat
         /\ \A r \in Requests : Seen(r) =>
              /\ Cardinality(Earlier(r)) \in Nat
              /\ Cardinality(Earlier(r)) <= Cardinality(Earlier(r)')
<1>1. IsFiniteSet(Came) /\ IsFiniteSet(Came')
  BY SeenStays DEF JInv, Started
<1>2. ASSUME NEW T, T \subseteq Came \/ T \subseteq Came'
      PROVE  IsFiniteSet(T) /\ Cardinality(T) \in Nat
  BY <1>1, <1>2, FS_Subset, FS_CardinalityType
<1>3. ASSUME NEW T, NEW U, T \subseteq U, U \subseteq Came' PROVE Cardinality(T) <= Cardinality(U)
  BY <1>2, <1>3, FS_Subset
<1>4. /\ \A k \in Keys : Inside(k) \subseteq Came
      /\ \A r \in Requests : Seen(r) => Earlier(r) \subseteq Came
  BY PartsCame DEF JInv
<1>5. /\ \A k \in Keys : Inside(k)' \subseteq Came'
      /\ \A r \in Requests : Seen(r)' => Earlier(r)' \subseteq Came'
  <2>1. /\ now' \in Nat /\ now' < Never /\ at' \in [Requests -> Nat] /\ Never \in Nat
        /\ \A q \in Requests : Seen(q)' => q \in Came' /\ at'[q] <= now'
    BY TimeAssumption DEF Never, TInv, IInv, Clocked, TypeOK, WindowTypeOK, LimiterTypeOK, Seen, Came
  <2> QED BY <2>1 DEF Inside, Earlier, Seen, Never
<1>6. ASSUME NEW k \in Keys, window'[k].resetAt = window[k].resetAt
      PROVE  Inside(k) \subseteq Inside(k)'
  BY <1>6, SeenStays DEF Inside
<1>7. ASSUME NEW r \in Requests, Seen(r) PROVE Seen(r)' /\ Earlier(r) \subseteq Earlier(r)'
  <2>1. \A q \in Earlier(r) : Seen(q)
    BY <1>7, PartsCame DEF JInv, Earlier, Seen
  <2> QED BY <1>7, <2>1, SeenStays DEF Earlier
<1>8. ASSUME NEW k \in Keys
      PROVE  /\ IsFiniteSet(Inside(k)) /\ IsFiniteSet(Inside(k)')
             /\ Cardinality(Inside(k)) \in Nat /\ Cardinality(Inside(k)') \in Nat
             /\ window'[k].resetAt = window[k].resetAt =>
                  /\ Inside(k) \subseteq Inside(k)'
                  /\ Cardinality(Inside(k)) <= Cardinality(Inside(k)')
  BY <1>2, <1>3, <1>4, <1>5, <1>6
<1>9. ASSUME NEW r \in Requests, Seen(r)'
      PROVE  IsFiniteSet(Earlier(r)') /\ Cardinality(Earlier(r)') \in Nat
  BY <1>2, <1>5, <1>9
<1>10. ASSUME NEW r \in Requests, Seen(r)
       PROVE  Cardinality(Earlier(r)) \in Nat /\ Cardinality(Earlier(r)) <= Cardinality(Earlier(r)')
  BY <1>2, <1>3, <1>4, <1>5, <1>7, <1>10
<1> QED BY <1>8, <1>9, <1>10

\* The newest hit of a window has all the others of it behind it.
LEMMA HitFills ==
  ASSUME JInv, TInv', [Next]_vars, NEW r \in Requests, Hit(KeyOf[r]), ~Seen(r),
         at' = [at EXCEPT ![r] = now]
  PROVE  Filled' /\ Cardinality(Earlier(r)') >= AfterHit(KeyOf[r]).count - 1
<1> DEFINE k == KeyOf[r]
           a == AfterHit(k)
<1>1. /\ k \in Keys /\ a \in State /\ now \in Nat /\ now < Never /\ window[k] \in State
      /\ Window \in Nat /\ Window > 0 /\ at \in [Requests -> Nat]
  BY KeyAssumption, AfterHitType, WindowAssumption, PartsCame
     DEF JInv, TInv, IInv, TypeOK, WindowTypeOK, State
<1>2. /\ at'[r] = now /\ window'[k] = a /\ now' = now
      /\ \A q \in Requests \ {r} : at'[q] = at[q]
      /\ \A j \in Keys \ {k} : window'[j] = window[j]
  BY <1>1 DEF Hit, JInv, TInv, IInv, TypeOK, WindowTypeOK
<1>3. ASSUME IsOpen(k)
      PROVE  /\ a.resetAt = window[k].resetAt /\ a.count = window[k].count + 1
             /\ window[k].resetAt > now /\ Cardinality(Inside(k)) >= window[k].count
  <2>1. a.resetAt = window[k].resetAt /\ a.count = window[k].count + 1
    BY <1>1, <1>3 DEF AfterHit, State
  <2> QED BY <1>1, <1>3, <2>1 DEF JInv, TInv, IInv, OpenIsCurrent, Filled
<1>4. ASSUME ~IsOpen(k) PROVE a.count = 1
  BY <1>4 DEF AfterHit
<1>5. /\ r \notin Inside(k) /\ Inside(k) \subseteq Requests
      /\ IsFiniteSet(Inside(k)) /\ IsFiniteSet(Inside(k)')
      /\ Cardinality(Inside(k)) \in Nat /\ Cardinality(Inside(k)') \in Nat
  BY <1>1, PartsGrow DEF Inside
<1>6. Seen(r)' /\ IsFiniteSet(Earlier(r)') /\ Cardinality(Earlier(r)') \in Nat
  BY <1>1, <1>2, PartsGrow DEF Seen, Never
<1>7. a.resetAt <= now + Window
  BY HitTimed DEF JInv
<1> HIDE DEF a
<1>8. r \in Inside(k)'
  BY <1>1, <1>2, <1>6, <1>7 DEF Inside
<1>9. ASSUME NEW j \in Keys, IsOpen(j)' PROVE Cardinality(Inside(j)') >= window'[j].count
  <2>1. CASE j # k
    <3>1. window'[j] = window[j] /\ IsOpen(j)
      BY <1>2, <1>9, <2>1 DEF IsOpen
    <3>2. /\ Cardinality(Inside(j)) <= Cardinality(Inside(j)') /\ Cardinality(Inside(j)) >= window[j].count
          /\ Cardinality(Inside(j)') \in Nat /\ Cardinality(Inside(j)) \in Nat
      BY <3>1, PartsGrow DEF JInv, Filled
    <3>3. window[j].count \in Nat
      BY DEF JInv, TInv, IInv, TypeOK, WindowTypeOK
    <3> QED BY <3>1, <3>2, <3>3
  <2>2. CASE j = k /\ IsOpen(k)
    <3>1. Inside(k) \cup {r} \subseteq Inside(k)'
      BY <1>1, <1>2, <1>3, <1>8, <2>2, PartsGrow
    <3>2. Cardinality(Inside(k) \cup {r}) = Cardinality(Inside(k)) + 1
      BY <1>5, FS_AddElement
    <3>3. Cardinality(Inside(k) \cup {r}) <= Cardinality(Inside(k)')
      BY <1>5, <3>1, FS_Subset
    <3>4. window[k].count \in Nat
      BY <1>1 DEF State
    <3> QED BY <1>2, <1>3, <1>5, <2>2, <3>2, <3>3, <3>4
  <2>3. CASE j = k /\ ~IsOpen(k)
    <3>1. Cardinality({r}) = 1 /\ Cardinality({r}) <= Cardinality(Inside(k)')
      BY <1>5, <1>8, FS_Singleton, FS_Subset
    <3> QED BY <1>2, <1>4, <2>3, <3>1
  <2> QED BY <2>1, <2>2, <2>3
<1>10. Cardinality(Earlier(r)') >= a.count - 1
  <2>1. CASE IsOpen(k)
    <3>1. ASSUME NEW p \in Inside(k) PROVE p \in Earlier(r)'
      <4>1. /\ p \in Requests /\ p # r /\ KeyOf[p] = KeyOf[r] /\ at[p] <= now
            /\ window[k].resetAt <= at[p] + Window
        BY <1>5, PartsCame DEF Inside, JInv
      <4>2. at[p] \in Nat /\ window[k].resetAt \in Nat
        BY <1>1, <4>1 DEF State
      <4>3. now < at[p] + Window
        BY <1>1, <1>3, <2>1, <4>1, <4>2
      <4> QED BY <1>2, <4>1, <4>3 DEF Earlier
    <3>2. Cardinality(Inside(k)) <= Cardinality(Earlier(r)')
      BY <1>6, <3>1, FS_Subset
    <3>3. window[k].count \in Nat
      BY <1>1 DEF State
    <3> QED BY <1>3, <1>5, <1>6, <2>1, <3>2, <3>3
  <2>2. CASE ~IsOpen(k)
    BY <1>4, <1>6, <2>2
  <2> QED BY <2>1, <2>2
<1> QED BY <1>9, <1>10 DEF Filled, a

\* What is known of the requests that had an answer before the step.
LEMMA PrecededStays ==
  ASSUME JInv, TInv', [Next]_vars, NEW q \in Requests, Hot(q), answer'[q] = answer[q]
  PROVE  Cardinality(Earlier(q)') >= answer'[q].count - 1
<1>1. Seen(q) /\ answer[q].count \in Nat
  BY PartsCame DEF JInv, TInv, IInv, Shape, Seen, TypeOK, LimiterTypeOK
<1>2. /\ Cardinality(Earlier(q)) \in Nat /\ Cardinality(Earlier(q)) <= Cardinality(Earlier(q)')
      /\ Cardinality(Earlier(q)') \in Nat /\ Cardinality(Earlier(q)) >= answer[q].count - 1
  BY <1>1, PartsGrow, SeenStays DEF JInv, Preceded
<1> QED BY <1>1, <1>2

LEMMA CountJInv == ASSUME JInv, NEW r \in Requests, Count(r), [Next]_vars PROVE JInv'
<1> DEFINE a == AfterHit(KeyOf[r])
<1>1. TInv' /\ Started'
  BY CountTInv, SeenStays DEF JInv
<1>2. /\ at' = [at EXCEPT ![r] = now] /\ answer' = [answer EXCEPT ![r] = a]
      /\ stage' = [stage EXCEPT ![r] = "counted"] /\ limit' = limit /\ Hit(KeyOf[r])
      /\ stage[r] = "called" /\ ~Seen(r)
  BY DEF Count, Counts, Goto, Seen, JInv, TInv, IInv, Clocked
<1>3. /\ answer'[r] = a /\ stage'[r] = "counted"
      /\ \A q \in Requests \ {r} : answer'[q] = answer[q] /\ stage'[q] = stage[q]
  BY <1>2 DEF JInv, TInv, IInv, TypeOK, LimiterTypeOK
<1>4. Filled' /\ Cardinality(Earlier(r)') >= a.count - 1
  BY <1>1, <1>2, HitFills
<1> HIDE DEF a
<1>5. ASSUME NEW q \in Requests \ {r}, Hot(q)' PROVE Cardinality(Earlier(q)') >= answer'[q].count - 1
  BY <1>1, <1>3, <1>5, PrecededStays DEF Hot
<1>6. Preceded'
  BY <1>3, <1>4, <1>5 DEF Preceded
<1>7. Refused'
  BY <1>2, <1>3 DEF JInv, Refused, Hot
<1> QED BY <1>1, <1>4, <1>6, <1>7 DEF JInv

LEMMA LateJInv == ASSUME JInv, NEW r \in Requests, Late(r), [Next]_vars PROVE JInv'
<1>1. TInv' /\ Started'
  BY LateTInv, SeenStays DEF JInv
<1>2. /\ at' = [at EXCEPT ![r] = now] /\ Hit(KeyOf[r]) /\ ~Seen(r) /\ UNCHANGED <<stage, answer, limit>>
  BY LateFacts DEF Late, Seen, JInv, TInv
<1>3. Filled'
  BY <1>1, <1>2, HitFills
<1>4. Preceded'
  BY <1>1, <1>2, PrecededStays DEF Preceded, Hot
<1>5. Refused'
  BY <1>2 DEF JInv, Refused, Hot
<1> QED BY <1>1, <1>3, <1>4, <1>5 DEF JInv

\* Every other step leaves the counts alone or takes them away.
LEMMA OtherJInv ==
  ASSUME JInv, [Next]_vars, \A r \in Requests : ~Count(r) /\ ~Late(r)
  PROVE  JInv'
<1>1. TInv' /\ Started'
  BY StepTInv, SeenStays DEF JInv
<1>2. /\ answer \in [Requests -> [count : Nat, resetAt : Nat]]
      /\ stage \in [Requests -> Stage] /\ limit \in [Requests -> Limits \cup {0}]
      /\ \A r \in Requests : stage[r] = "counted" => Hot(r)
  BY DEF JInv, TInv, IInv, TypeOK, LimiterTypeOK, Shape
<1>3. /\ \A k \in Keys : IsOpen(k)' => IsOpen(k) /\ window'[k] = window[k]
      /\ \A r \in Requests : Hot(r)' => Hot(r) /\ answer'[r] = answer[r]
      /\ Refused'
  <2>1. CASE Tick /\ UNCHANGED limiter
    BY <2>1 DEF Tick, limiter, local, IsOpen, Hot, Closed, JInv, Refused
  <2>2. ASSUME NEW r \in Requests, Fail(r), UNCHANGED clock
        PROVE  /\ window' = window /\ \A q \in Requests : Hot(q)' => Hot(q) /\ answer'[q] = answer[q]
               /\ Refused'
    <3>1. \A q \in Requests : Hot(q)' => Hot(q) /\ answer'[q] = answer[q]
      BY <1>2, <2>2 DEF Fail, Hot, NoAnswer
    <3>2. Refused'
      BY <1>2, <2>2 DEF Fail, Goto, Hot, JInv, Refused
    <3> QED BY <2>2, <3>1, <3>2 DEF clock
  <2>3. ASSUME NEW r \in Requests, Decide(r), UNCHANGED clock
        PROVE  UNCHANGED <<window, answer>> /\ Refused'
    BY <1>2, <2>3 DEF Decide, Goto, clock, JInv, Refused, Hot
  <2>4. ASSUME NEW r \in Requests, NEW i \in Instances, Call(r, i), UNCHANGED clock
        PROVE  UNCHANGED <<window, answer>> /\ Refused'
    BY <1>2, <2>4 DEF Call, Goto, clock, JInv, Refused, Hot
  <2>5. ASSUME UNCHANGED <<window, answer, stage, limit>>
        PROVE  UNCHANGED <<window, answer>> /\ Refused'
    BY <2>5 DEF JInv, Refused, Hot
  <2>6. CASE Moves /\ UNCHANGED clock
    BY <2>2, <2>3, <2>4, <2>5, <2>6 DEF Moves, SetLimit, clock, local, IsOpen, Hot
  <2>7. CASE UNCHANGED vars
    BY <2>5, <2>7 DEF vars, clock, limiter, local, IsOpen, Hot
  <2> QED BY <2>1, <2>6, <2>7 DEF Next
<1>4. ASSUME NEW k \in Keys, IsOpen(k)' PROVE Cardinality(Inside(k)') >= window'[k].count
  <2>1. /\ Cardinality(Inside(k)) <= Cardinality(Inside(k)')
        /\ Cardinality(Inside(k)) \in Nat /\ Cardinality(Inside(k)') \in Nat
        /\ Cardinality(Inside(k)) >= window[k].count /\ window'[k] = window[k]
    BY <1>1, <1>3, <1>4, PartsGrow DEF JInv, Filled
  <2>2. window[k].count \in Nat
    BY DEF JInv, TInv, IInv, TypeOK, WindowTypeOK
  <2> QED BY <2>1, <2>2
<1>5. Preceded'
  BY <1>1, <1>3, PrecededStays DEF Preceded
<1> QED BY <1>1, <1>3, <1>4, <1>5 DEF JInv, Filled

LEMMA StepJInv == JInv /\ [Next]_vars => JInv'
BY CountJInv, LateJInv, OtherJInv

LEMMA JInvCorrect == RateSpec => []JInv
BY InitJInv, StepJInv, PTL DEF RateSpec

\* Nobody is refused who did not spend the limit: the store had counted at
\* least as many other hits of the key as the limit the request read in the
\* Window ticks before, for any number of requests and whatever calls fail.
THEOREM RefusalIsJustifiedCorrect == RateSpec => []RefusalIsJustified
<1>1. ASSUME JInv, NEW r \in Requests, stage[r] = "refused"
      PROVE  Cardinality(Earlier(r)) >= limit[r]
  <2>1. Hot(r) /\ answer[r].count > limit[r] /\ Cardinality(Earlier(r)) >= answer[r].count - 1
    BY <1>1 DEF JInv, Refused, Preceded
  <2>2. answer[r].count \in Nat /\ limit[r] \in Limits \cup {0}
    BY <1>1 DEF JInv, TInv, IInv, TypeOK, LimiterTypeOK
  <2>5. Limits \cup {0} \subseteq Nat
    BY LimitAssumption
  <2>6. limit[r] \in Nat
    BY <2>2, <2>5
  <2>3. Earlier(r) \subseteq Came
    BY <1>1, <2>1, PartsCame DEF JInv, TInv, IInv, Shape, Seen
  <2>4. Cardinality(Earlier(r)) \in Nat
    BY <1>1, <2>3, FS_Subset, FS_CardinalityType DEF JInv, Started
  <2> QED BY <2>1, <2>2, <2>4, <2>6
<1>2. JInv => RefusalIsJustified
  BY <1>1 DEF RefusalIsJustified, Earlier
<1> QED BY <1>2, JInvCorrect, PTL

=============================================================================
