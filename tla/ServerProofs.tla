----------------------------- MODULE ServerProofs -----------------------------
(***************************************************************************)
(* What the server promises, for any number of requests, users, processes  *)
(* and any limit.                                                          *)
(***************************************************************************)
EXTENDS Server, FiniteSetTheorems, TLAPS

\* Before a response, and before the limiter has counted
Uncounted == {"none", "body", "limiter"}
Waiting == Uncounted \cup {"admitted", "refused", "handler"}
Control == Waiting \cup {"streaming", "storing", "hung", "done", "cut"}

TypeOK ==
  /\ pc \in [Requests -> Control]
  /\ \A r \in Requests : kind[r] \in Kinds[r]
  /\ kind = [r \in Requests |-> kind[r]]
  /\ status \in [Requests -> Nat]
  /\ hits \in [Users -> Nat] /\ failures \in [Users -> Nat] /\ lives \in [Users -> Nat]
  /\ judged \in [Users -> SUBSET Requests] /\ admitted \in [Users -> SUBSET Requests]

\* While a request waits there is no response.
NoStatusYet == \A r \in Requests : pc[r] \in Waiting => status[r] = 0

\* A request that was counted never comes to the limiter again.
CountedOnce ==
  \A u \in Users : \A r \in judged[u] : pc[r] \notin Uncounted

\* The store has at most as many hits as there are counted requests.
HitsAreRequests ==
  \A u \in Users : hits[u] <= Cardinality(judged[u])

\* Every ended process that counted may have let Limit requests through, the
\* store of now as many as it has hits.
Allowed(limit, ended, count) ==
  limit * ended + (IF count < limit THEN count ELSE limit)

\* A failing store adds the request that it lets through and is counted for it.
Bounded ==
  \A u \in Users :
    /\ UsesRedis => lives[u] = 0
    /\ Cardinality(admitted[u]) <= Allowed(Limit, lives[u], hits[u]) + failures[u]

IInv == TypeOK /\ NoStatusYet /\ CountedOnce /\ HitsAreRequests /\ Bounded

-----------------------------------------------------------------------------
LEMMA UserOfRequest ==
  ASSUME TypeOK, NEW r \in Requests PROVE kind[r].user \in Users
BY KindAssumption DEF TypeOK

LEMMA SizeOfSubset ==
  ASSUME NEW S \in SUBSET Requests
  PROVE  IsFiniteSet(S) /\ Cardinality(S) \in Nat
BY RequestAssumption, FS_Subset, FS_CardinalityType

\* One hit more is one request more, up to the limit.
LEMMA AllowedHit ==
  ASSUME NEW limit \in Nat, NEW ended \in Nat, NEW count \in Nat
  PROVE  /\ Allowed(limit, ended, count) \in Nat
         /\ Allowed(limit, ended, count + 1) \in Nat
         /\ count < limit =>
              Allowed(limit, ended, count + 1) = Allowed(limit, ended, count) + 1
         /\ Allowed(limit, ended, count) <= Allowed(limit, ended, count + 1)
<1> DEFINE past == limit * ended
<1>1. past \in Nat
  OBVIOUS
<1>2. \A n \in Nat : Allowed(limit, ended, n) = past + (IF n < limit THEN n ELSE limit)
  BY DEF Allowed
<1>3. count + 1 \in Nat
  OBVIOUS
<1> HIDE DEF past
<1> QED BY <1>1, <1>2, <1>3

\* What a store let through is a whole limit for the next, if it counted at all.
LEMMA AllowedNext ==
  ASSUME NEW limit \in Nat, NEW ended \in Nat, NEW count \in Nat
  PROVE  /\ Allowed(limit, ended, 0) = limit * ended
         /\ limit * ended \in Nat /\ limit * (ended + 1) \in Nat
         /\ Allowed(limit, ended, count) <= limit * (ended + 1)
         /\ Allowed(limit, ended + 1, 0) = limit * (ended + 1)
<1>1. limit * ended \in Nat /\ limit * (ended + 1) = limit * ended + limit
  OBVIOUS
<1>2. Allowed(limit, ended, 0) = limit * ended
  BY <1>1 DEF Allowed
<1>3. Allowed(limit, ended, count) <= limit * (ended + 1)
  BY <1>1 DEF Allowed
<1>4. Allowed(limit, ended + 1, 0) = limit * (ended + 1)
  BY <1>1 DEF Allowed
<1> QED BY <1>1, <1>2, <1>3, <1>4

LEMMA InitIInv == Init => IInv
<1> SUFFICES ASSUME Init PROVE IInv
  OBVIOUS
<1>1. TypeOK
  BY KindAssumption DEF Init, TypeOK, Control, Waiting, Uncounted
<1>2. NoStatusYet /\ CountedOnce
  BY DEF Init, NoStatusYet, CountedOnce
<1>3. Limit \in Nat
  BY BoundAssumption
<1>4. HitsAreRequests /\ Bounded
  <2>1. Cardinality({}) = 0 /\ Allowed(Limit, 0, 0) = 0
    BY <1>3, FS_EmptySet DEF Allowed
  <2>2. \A u \in Users : /\ hits[u] = 0 /\ lives[u] = 0 /\ failures[u] = 0
                         /\ judged[u] = {} /\ admitted[u] = {}
    BY DEF Init
  <2>3. ASSUME NEW u \in Users
        PROVE  /\ hits[u] <= Cardinality(judged[u])
               /\ Cardinality(admitted[u]) <= Allowed(Limit, lives[u], hits[u]) + failures[u]
    <3>1. /\ Cardinality(judged[u]) = 0 /\ Cardinality(admitted[u]) = 0
          /\ hits[u] = 0 /\ failures[u] = 0 /\ Allowed(Limit, lives[u], hits[u]) = 0
      BY <2>1, <2>2
    <3> QED BY <3>1
  <2> QED BY <2>2, <2>3 DEF HitsAreRequests, Bounded
<1> QED BY <1>1, <1>2, <1>4 DEF IInv

-----------------------------------------------------------------------------
(* Requests: types, responses *)

LEMMA ResponseStep == TypeOK /\ NoStatusYet /\ [Next]_vars => TypeOK' /\ NoStatusYet'
<1> SUFFICES ASSUME TypeOK, NoStatusYet, [Next]_vars PROVE TypeOK' /\ NoStatusYet'
  OBVIOUS
<1> USE DEF TypeOK, NoStatusYet, Control, Waiting, Uncounted, limiter, requests, process
<1>1. ASSUME Ends PROVE TypeOK' /\ NoStatusYet'
  BY <1>1 DEF Ends, Working
<1>2. CASE Start \/ Listen \/ Signal \/ DisconnectFails
  BY <1>2 DEF Start, Listen, Signal, Shutdown, DisconnectFails
<1>3. ASSUME NEW r \in Requests, Arrive(r) \/ BodyStops(r) PROVE TypeOK' /\ NoStatusYet'
  BY <1>3 DEF Arrive, BodyStops, Goes
<1>4. ASSUME NEW r \in Requests, Enter(r) PROVE TypeOK' /\ NoStatusYet'
  <2>1. /\ UNCHANGED <<limiter, kind>>
        /\ \/ \E code \in {500, 404, 401, 422} : Responds(r, code)
           \/ \E where \in {"limiter", "handler"} : Goes(r, where) /\ UNCHANGED status
        /\ pc[r] = "body"
    BY <1>4 DEF Enter
  <2> QED BY <2>1 DEF Responds, Goes
<1>5. ASSUME NEW r \in Requests, Hit(r) PROVE TypeOK' /\ NoStatusYet'
  <2>1. kind[r].user \in Users
    BY UserOfRequest
  <2>2. /\ UNCHANGED <<failures, lives, kind, status>>
        /\ pc[r] = "limiter"
        /\ \E where \in {"refused", "admitted"} : Goes(r, where)
        /\ hits' = [hits EXCEPT ![kind[r].user] = @ + 1]
        /\ judged' = [judged EXCEPT ![kind[r].user] = @ \cup {r}]
        /\ \/ UNCHANGED admitted
           \/ admitted' = [admitted EXCEPT ![kind[r].user] = @ \cup {r}]
    BY <1>5 DEF Hit, Counts, LetThrough, Chains
  <2>3. hits' \in [Users -> Nat] /\ judged' \in [Users -> SUBSET Requests]
    BY <2>1, <2>2
  <2>4. admitted' \in [Users -> SUBSET Requests]
    BY <2>1, <2>2
  <2> QED BY <2>2, <2>3, <2>4 DEF Goes
<1>11. ASSUME NEW r \in Requests, HitFails(r) PROVE TypeOK' /\ NoStatusYet'
  <2>1. kind[r].user \in Users
    BY UserOfRequest
  <2>2. /\ UNCHANGED <<lives, kind, status>>
        /\ pc[r] = "limiter" /\ Goes(r, "admitted")
        /\ \/ UNCHANGED <<hits, judged>>
           \/ /\ hits' = [hits EXCEPT ![kind[r].user] = @ + 1]
              /\ judged' = [judged EXCEPT ![kind[r].user] = @ \cup {r}]
        /\ admitted' = [admitted EXCEPT ![kind[r].user] = @ \cup {r}]
        /\ failures' = [failures EXCEPT ![kind[r].user] = @ + 1]
    BY <1>11 DEF HitFails, Counts, LetThrough, Chains
  <2>3. hits' \in [Users -> Nat] /\ judged' \in [Users -> SUBSET Requests]
    BY <2>1, <2>2
  <2>4. admitted' \in [Users -> SUBSET Requests] /\ failures' \in [Users -> Nat]
    BY <2>1, <2>2
  <2> QED BY <2>2, <2>3, <2>4 DEF Goes
<1>6. ASSUME NEW r \in Requests, Judge(r) PROVE TypeOK' /\ NoStatusYet'
  BY <1>6 DEF Judge, Responds, Goes
<1>7. ASSUME NEW r \in Requests, Handle(r) \/ Complete(r) PROVE TypeOK' /\ NoStatusYet'
  BY <1>7 DEF Handle, Complete, Responds, Goes, Answers
<1>8. ASSUME NEW r \in Requests, Throws(r) \/ ThrowsUncaught(r) PROVE TypeOK' /\ NoStatusYet'
  BY <1>8 DEF Throws, ThrowsUncaught, Shutdown, ErrorHandler, Responds, Goes
<1>9. ASSUME NEW u \in Users, Expire(u) PROVE TypeOK' /\ NoStatusYet'
  BY <1>9 DEF Expire
<1>10. CASE UNCHANGED vars
  BY <1>10 DEF vars
<1> QED
  BY <1>1, <1>2, <1>3, <1>4, <1>5, <1>6, <1>7, <1>8, <1>9, <1>10, <1>11
     DEF Next, Serves, StartFails, Disconnected, Kill

\* A response that has begun keeps its status.
LEMMA StatusStep ==
  ASSUME NoStatusYet, TypeOK, [Next]_vars, NEW r \in Requests, status[r] # 0
  PROVE  status'[r] = status[r]
<1> USE DEF TypeOK, NoStatusYet, Waiting, Uncounted, limiter, requests, process
<1>1. ASSUME NEW q \in Requests, Enter(q) PROVE status'[r] = status[r]
  <2>1. /\ pc[q] = "body"
        /\ UNCHANGED status \/ \E code \in {500, 404, 401, 422} : Responds(q, code)
    BY <1>1 DEF Enter
  <2> QED BY <2>1 DEF Responds
<1>2. ASSUME NEW q \in Requests, Judge(q) \/ Handle(q) \/ Complete(q) PROVE status'[r] = status[r]
  BY <1>2 DEF Judge, Handle, Complete, Responds
<1>3. ASSUME NEW q \in Requests, Throws(q) \/ ThrowsUncaught(q) PROVE status'[r] = status[r]
  BY <1>3 DEF Throws, ThrowsUncaught, ErrorHandler, Responds
<1>4. ASSUME NEW q \in Requests, Arrive(q) \/ BodyStops(q) \/ Hit(q) \/ HitFails(q)
      PROVE  status'[r] = status[r]
  BY <1>4 DEF Arrive, BodyStops, Hit, HitFails
<1>5. CASE Start \/ Listen \/ StartFails \/ Signal \/ Disconnected \/ DisconnectFails \/ Kill
  BY <1>5 DEF Start, Listen, StartFails, Signal, Disconnected, DisconnectFails, Kill, Ends
<1>6. ASSUME NEW u \in Users, Expire(u) PROVE status'[r] = status[r]
  BY <1>6 DEF Expire
<1>7. CASE UNCHANGED vars
  BY <1>7 DEF vars
<1> QED BY <1>1, <1>2, <1>3, <1>4, <1>5, <1>6, <1>7 DEF Next, Serves

-----------------------------------------------------------------------------
(* The limiter *)

LimiterInv == CountedOnce /\ HitsAreRequests /\ Bounded

\* Steps of requests away from the limiter
LEMMA ElsewhereStep ==
  ASSUME IInv, UNCHANGED <<limiter, config>>,
         \A q \in Requests : pc'[q] \in Uncounted => pc[q] \in Uncounted
  PROVE  LimiterInv'
<1>1. CountedOnce'
  BY DEF IInv, TypeOK, CountedOnce, limiter
<1> QED BY <1>1 DEF IInv, LimiterInv, HitsAreRequests, Bounded, UsesRedis, limiter

\* A hit: what the store does to the user of the request
LEMMA CountStep ==
  ASSUME IInv, NEW r \in Requests, pc[r] = "limiter", Counts(r)
  PROVE  LET u == kind[r].user
         IN  /\ u \in Users /\ hits'[u] = hits[u] + 1
             /\ hits'[u] <= Cardinality(judged'[u])
             /\ judged'[u] = judged[u] \cup {r}
             /\ \A o \in Users \ {u} : hits'[o] = hits[o] /\ judged'[o] = judged[o]
<1> DEFINE u == kind[r].user
<1>1. u \in Users /\ hits[u] \in Nat
  BY UserOfRequest DEF IInv, TypeOK
<1>2. /\ hits' = [hits EXCEPT ![u] = hits[u] + 1]
      /\ judged' = [judged EXCEPT ![u] = judged[u] \cup {r}]
  BY DEF Counts, Chains
<1> HIDE DEF u
<1>3. r \notin judged[u] /\ hits[u] <= Cardinality(judged[u])
  BY <1>1 DEF IInv, CountedOnce, HitsAreRequests, Uncounted
<1>4. judged[u] \in SUBSET Requests
  BY <1>1 DEF IInv, TypeOK
<1>5. Cardinality(judged[u]) \in Nat /\ Cardinality(judged[u] \cup {r}) = Cardinality(judged[u]) + 1
  BY <1>3, <1>4, SizeOfSubset, FS_AddElement
<1>6. /\ hits'[u] = hits[u] + 1 /\ judged'[u] = judged[u] \cup {r}
      /\ \A o \in Users \ {u} : hits'[o] = hits[o] /\ judged'[o] = judged[o]
  BY <1>1, <1>2 DEF IInv, TypeOK
<1> QED BY <1>1, <1>3, <1>5, <1>6 DEF u

\* A request more that is let through
LEMMA LetStep ==
  ASSUME IInv, NEW r \in Requests, LetThrough(r)
  PROVE  LET u == kind[r].user
         IN  /\ Cardinality(admitted[u]) \in Nat /\ Cardinality(admitted'[u]) \in Nat
             /\ Cardinality(admitted'[u]) <= Cardinality(admitted[u]) + 1
             /\ \A o \in Users \ {u} : admitted'[o] = admitted[o]
<1> DEFINE u == kind[r].user
<1>1. u \in Users
  BY UserOfRequest DEF IInv
<1>2. admitted' = [admitted EXCEPT ![u] = admitted[u] \cup {r}]
  BY DEF LetThrough
<1> HIDE DEF u
<1>3. admitted[u] \in SUBSET Requests
  BY <1>1 DEF IInv, TypeOK
<1>4. /\ IsFiniteSet(admitted[u]) /\ Cardinality(admitted[u]) \in Nat
      /\ Cardinality(admitted[u] \cup {r}) \in {Cardinality(admitted[u]), Cardinality(admitted[u]) + 1}
  BY <1>3, SizeOfSubset, FS_AddElement
<1>5. /\ admitted'[u] = admitted[u] \cup {r}
      /\ \A o \in Users \ {u} : admitted'[o] = admitted[o]
  BY <1>1, <1>2 DEF IInv, TypeOK
<1> QED BY <1>4, <1>5 DEF u

LEMMA HitStep == ASSUME IInv, NEW r \in Requests, Hit(r) PROVE LimiterInv'
<1> DEFINE u == kind[r].user
<1>1. /\ u \in Users /\ hits[u] \in Nat /\ lives[u] \in Nat /\ failures[u] \in Nat
      /\ Limit \in Nat /\ Cardinality(admitted[u]) \in Nat
  BY UserOfRequest, BoundAssumption, SizeOfSubset DEF IInv, TypeOK
<1>2. /\ pc[r] = "limiter" /\ Counts(r)
      /\ UNCHANGED <<failures, lives, config>>
      /\ \/ UNCHANGED admitted /\ Goes(r, "refused")
         \/ hits'[u] <= Limit /\ LetThrough(r)
  <2>1. hits'[u] \in Nat
    BY <1>1, CountStep DEF Hit
  <2> QED BY <1>1, <2>1 DEF Hit, process
<1>3. /\ hits'[u] = hits[u] + 1 /\ hits'[u] <= Cardinality(judged'[u])
      /\ judged'[u] = judged[u] \cup {r}
      /\ \A o \in Users \ {u} : hits'[o] = hits[o] /\ judged'[o] = judged[o]
  BY <1>2, CountStep
<1>4. /\ Cardinality(admitted'[u]) \in Nat
      /\ \/ Cardinality(admitted'[u]) = Cardinality(admitted[u])
         \/ hits'[u] <= Limit /\ Cardinality(admitted'[u]) <= Cardinality(admitted[u]) + 1
      /\ \A o \in Users \ {u} : admitted'[o] = admitted[o]
  BY <1>1, <1>2, LetStep
<1>5. pc' = [pc EXCEPT ![r] = "refused"] \/ pc' = [pc EXCEPT ![r] = "admitted"]
  BY <1>2 DEF LetThrough, Goes
<1> HIDE DEF u
<1>6. CountedOnce'
  BY <1>1, <1>3, <1>5 DEF IInv, TypeOK, CountedOnce, Uncounted
<1>7. HitsAreRequests'
  BY <1>3 DEF IInv, HitsAreRequests
<1>8. Cardinality(admitted[u]) <= Allowed(Limit, lives[u], hits[u]) + failures[u]
  BY <1>1 DEF IInv, Bounded
<1>9. /\ Allowed(Limit, lives[u], hits[u]) \in Nat
      /\ Allowed(Limit, lives[u], hits'[u]) \in Nat
      /\ hits[u] < Limit => Allowed(Limit, lives[u], hits'[u]) = Allowed(Limit, lives[u], hits[u]) + 1
      /\ Allowed(Limit, lives[u], hits[u]) <= Allowed(Limit, lives[u], hits'[u])
  <2> DEFINE limit == Limit  ended == lives[u]  count == hits[u]
  <2>1. limit \in Nat /\ ended \in Nat /\ count \in Nat /\ hits'[u] = count + 1
    BY <1>1, <1>3
  <2> HIDE DEF limit, ended, count
  <2>2. /\ Allowed(limit, ended, count) \in Nat /\ Allowed(limit, ended, count + 1) \in Nat
        /\ count < limit => Allowed(limit, ended, count + 1) = Allowed(limit, ended, count) + 1
        /\ Allowed(limit, ended, count) <= Allowed(limit, ended, count + 1)
    BY <2>1, AllowedHit
  <2> QED BY <2>1, <2>2 DEF limit, ended, count
<1>10. hits'[u] <= Limit => hits[u] < Limit
  BY <1>1, <1>3
<1>11. Cardinality(admitted'[u]) <= Allowed(Limit, lives[u], hits'[u]) + failures[u]
  BY <1>1, <1>4, <1>8, <1>9, <1>10
<1>12. Bounded'
  BY <1>2, <1>3, <1>4, <1>11 DEF IInv, Bounded, UsesRedis
<1> QED BY <1>6, <1>7, <1>12 DEF LimiterInv

\* The failure pays for the request it lets through, counted or not.
LEMMA HitFailsStep == ASSUME IInv, NEW r \in Requests, HitFails(r) PROVE LimiterInv'
<1> DEFINE u == kind[r].user
<1>1. /\ u \in Users /\ hits[u] \in Nat /\ lives[u] \in Nat /\ failures[u] \in Nat
      /\ Limit \in Nat
  BY UserOfRequest, BoundAssumption DEF IInv, TypeOK
<1>2. /\ pc[r] = "limiter" /\ pc' = [pc EXCEPT ![r] = "admitted"]
      /\ UNCHANGED <<lives, config>> /\ LetThrough(r)
      /\ failures' = [failures EXCEPT ![u] = failures[u] + 1]
      /\ Counts(r) \/ UNCHANGED <<hits, judged>>
  BY DEF HitFails, LetThrough, Goes, process
<1>3. /\ \A o \in Users \ {u} : hits'[o] = hits[o] /\ judged'[o] = judged[o]
      /\ \/ hits'[u] = hits[u] /\ judged'[u] = judged[u]
         \/ /\ hits'[u] = hits[u] + 1 /\ hits'[u] <= Cardinality(judged'[u])
            /\ judged'[u] = judged[u] \cup {r}
  BY <1>2, CountStep
<1>4. /\ Cardinality(admitted[u]) \in Nat /\ Cardinality(admitted'[u]) \in Nat
      /\ Cardinality(admitted'[u]) <= Cardinality(admitted[u]) + 1
      /\ \A o \in Users \ {u} : admitted'[o] = admitted[o]
  BY <1>2, LetStep
<1>5. /\ failures'[u] = failures[u] + 1
      /\ \A o \in Users \ {u} : failures'[o] = failures[o]
  BY <1>1, <1>2 DEF IInv, TypeOK
<1> HIDE DEF u
<1>6. CountedOnce'
  BY <1>1, <1>2, <1>3 DEF IInv, TypeOK, CountedOnce, Uncounted
<1>7. HitsAreRequests'
  BY <1>3 DEF IInv, HitsAreRequests
<1>8. Cardinality(admitted[u]) <= Allowed(Limit, lives[u], hits[u]) + failures[u]
  BY <1>1 DEF IInv, Bounded
<1>9. /\ Allowed(Limit, lives[u], hits[u]) \in Nat
      /\ Allowed(Limit, lives[u], hits'[u]) \in Nat
      /\ Allowed(Limit, lives[u], hits[u]) <= Allowed(Limit, lives[u], hits'[u])
  <2> DEFINE limit == Limit  ended == lives[u]  count == hits[u]
  <2>1. limit \in Nat /\ ended \in Nat /\ count \in Nat /\ hits'[u] \in {count, count + 1}
    BY <1>1, <1>3
  <2> HIDE DEF limit, ended, count
  <2>2. /\ Allowed(limit, ended, count) \in Nat /\ Allowed(limit, ended, count + 1) \in Nat
        /\ Allowed(limit, ended, count) <= Allowed(limit, ended, count + 1)
    BY <2>1, AllowedHit
  <2>3. CASE hits'[u] = count
    BY <2>2, <2>3 DEF limit, ended, count
  <2>4. CASE hits'[u] = count + 1
    BY <2>2, <2>4 DEF limit, ended, count
  <2> QED BY <2>1, <2>3, <2>4
<1>10. Cardinality(admitted'[u]) <= Allowed(Limit, lives[u], hits'[u]) + failures'[u]
  BY <1>1, <1>4, <1>5, <1>8, <1>9
<1>11. Bounded'
  BY <1>2, <1>3, <1>4, <1>5, <1>10 DEF IInv, Bounded, UsesRedis
<1> QED BY <1>6, <1>7, <1>11 DEF LimiterInv

LEMMA EndsStep == ASSUME IInv, Ends PROVE LimiterInv'
<1>1. CountedOnce'
  BY DEF IInv, TypeOK, Ends, CountedOnce, Uncounted
<1>2. ASSUME NEW u \in Users
      PROVE  judged'[u] = judged[u] /\ hits'[u] \in {hits[u], 0}
  BY DEF IInv, TypeOK, Ends
<1>3. ASSUME NEW u \in Users PROVE hits[u] \in Nat /\ Cardinality(judged[u]) \in Nat
  BY SizeOfSubset DEF IInv, TypeOK
<1>4. HitsAreRequests'
  BY <1>2, <1>3 DEF IInv, HitsAreRequests
<1>5. CASE UsesRedis
  <2>1. UNCHANGED <<config, hits, lives, admitted, failures>>
    BY <1>5 DEF Ends
  <2>2. Bounded'
    BY <2>1 DEF IInv, Bounded, UsesRedis
  <2> QED BY <1>1, <1>4, <2>2 DEF LimiterInv
<1>6. CASE ~UsesRedis
  <2>1. ~UsesRedis'
    BY <1>6 DEF Ends, UsesRedis
  <2>2. ASSUME NEW u \in Users
        PROVE  Cardinality(admitted'[u]) <= Allowed(Limit, lives'[u], hits'[u]) + failures'[u]
    <3>1. /\ hits[u] \in Nat /\ lives[u] \in Nat /\ failures[u] \in Nat /\ Limit \in Nat
          /\ Cardinality(admitted[u]) \in Nat
          /\ Cardinality(admitted[u]) <= Allowed(Limit, lives[u], hits[u]) + failures[u]
      BY BoundAssumption, SizeOfSubset DEF IInv, TypeOK, Bounded
    <3>2. /\ hits'[u] = 0 /\ admitted'[u] = admitted[u] /\ failures'[u] = failures[u]
          /\ lives'[u] = IF hits[u] > 0 THEN lives[u] + 1 ELSE lives[u]
      BY <1>6 DEF Ends, IInv, TypeOK
    <3>3. CASE hits[u] = 0
      BY <3>1, <3>2, <3>3
    <3>4. CASE hits[u] > 0
      <4>1. /\ Allowed(Limit, lives[u], hits[u]) <= Allowed(Limit, lives'[u], hits'[u])
            /\ Allowed(Limit, lives[u], hits[u]) \in Nat
            /\ Allowed(Limit, lives'[u], hits'[u]) \in Nat
        <5>1. Allowed(Limit, lives[u], hits[u]) \in Nat
          BY <3>1, AllowedHit
        <5>2. /\ Allowed(Limit, lives[u], hits[u]) <= Limit * (lives[u] + 1)
              /\ Allowed(Limit, lives[u] + 1, 0) = Limit * (lives[u] + 1)
              /\ Limit * (lives[u] + 1) \in Nat
          BY <3>1, AllowedNext
        <5>3. lives'[u] = lives[u] + 1 /\ hits'[u] = 0
          BY <3>2, <3>4
        <5> QED BY <5>1, <5>2, <5>3
      <4> QED BY <3>1, <3>2, <4>1
    <3> QED BY <3>1, <3>3, <3>4
  <2>3. Bounded'
    BY <2>1, <2>2 DEF Bounded
  <2> QED BY <1>1, <1>4, <2>3 DEF LimiterInv
<1> QED BY <1>5, <1>6

LEMMA ExpireStep == ASSUME IInv, NEW u \in Users, Expire(u) PROVE LimiterInv'
<1>1. /\ judged' = [judged EXCEPT ![u] = {}] /\ admitted' = [admitted EXCEPT ![u] = {}]
      /\ hits' = [hits EXCEPT ![u] = 0]
      /\ failures' = [failures EXCEPT ![u] = 0] /\ lives' = [lives EXCEPT ![u] = 0]
      /\ pc' = pc /\ config' = config
  BY DEF Expire, requests, process
<1>2. CountedOnce'
  BY <1>1 DEF IInv, TypeOK, CountedOnce
<1>3. Cardinality({}) = 0 /\ Allowed(Limit, 0, 0) = 0
  BY BoundAssumption, FS_EmptySet DEF Allowed
<1>4. /\ judged'[u] = {} /\ admitted'[u] = {}
      /\ hits'[u] = 0 /\ failures'[u] = 0 /\ lives'[u] = 0
      /\ \A o \in Users \ {u} :
           /\ judged'[o] = judged[o] /\ admitted'[o] = admitted[o]
           /\ hits'[o] = hits[o] /\ failures'[o] = failures[o] /\ lives'[o] = lives[o]
  BY <1>1 DEF IInv, TypeOK
<1>5. HitsAreRequests'
  BY <1>3, <1>4 DEF IInv, HitsAreRequests
<1>6. ASSUME NEW o \in Users
      PROVE  /\ UsesRedis => lives'[o] = 0
             /\ Cardinality(admitted'[o]) <= Allowed(Limit, lives'[o], hits'[o]) + failures'[o]
  <2>1. CASE o = u
    BY <1>3, <1>4, <2>1
  <2>2. CASE o # u
    BY <1>4, <2>2 DEF IInv, Bounded
  <2> QED BY <2>1, <2>2
<1>7. UsesRedis' = UsesRedis
  BY <1>1 DEF UsesRedis
<1>8. Bounded'
  BY <1>6, <1>7 DEF Bounded
<1> QED BY <1>2, <1>5, <1>8 DEF LimiterInv

LEMMA LimiterStep == ASSUME IInv, [Next]_vars PROVE LimiterInv'
<1> USE DEF limiter, requests, process, Uncounted
<1>1. ASSUME NEW r \in Requests,
             \/ Arrive(r) \/ BodyStops(r) \/ Enter(r) \/ Judge(r)
             \/ Handle(r) \/ Complete(r) \/ Throws(r) \/ ThrowsUncaught(r)
      PROVE  LimiterInv'
  <2>1. UNCHANGED <<limiter, config>>
    BY <1>1 DEF Arrive, BodyStops, Enter, Judge, Handle, Complete, Throws,
                ThrowsUncaught, Shutdown
  <2>2. \/ pc[r] \in Uncounted /\ \E where \in Control : Goes(r, where)
        \/ \E where \in Control \ Uncounted : Goes(r, where)
    <3>1. CASE Arrive(r) \/ BodyStops(r) \/ Enter(r)
      BY <3>1 DEF Arrive, BodyStops, Enter, Responds, Control, Waiting
    <3>2. CASE \/ Judge(r) \/ Handle(r) \/ Complete(r)
               \/ Throws(r) \/ ThrowsUncaught(r)
      BY <3>2 DEF Judge, Handle, Complete, Throws, ThrowsUncaught, ErrorHandler,
                  Responds, Control, Waiting
    <3> QED BY <1>1, <3>1, <3>2
  <2>3. \A q \in Requests : pc'[q] \in Uncounted => pc[q] \in Uncounted
    BY <2>2 DEF Goes, IInv, TypeOK
  <2> QED BY <2>1, <2>3, ElsewhereStep
<1>2. CASE Start \/ Listen \/ Signal \/ DisconnectFails \/ UNCHANGED vars
  <2>1. UNCHANGED <<limiter, config, pc>>
    BY <1>2 DEF Start, Listen, Signal, Shutdown, DisconnectFails, vars
  <2> QED BY <2>1, ElsewhereStep
<1> QED
  BY <1>1, <1>2, HitStep, HitFailsStep, EndsStep, ExpireStep
     DEF Next, Serves, StartFails, Disconnected, Kill

LEMMA IInvCorrect == Spec => []IInv
<1>1. IInv /\ [Next]_vars => IInv'
  BY ResponseStep, LimiterStep DEF IInv, LimiterInv
<1> QED BY <1>1, InitIInv, PTL DEF Spec

-----------------------------------------------------------------------------
\* A user gets Limit requests through in a window for each store that counted in
\* it - one Redis, or the Map of each process - and one more for each failure.
THEOREM WindowAcrossRestartsCorrect == Spec => []WindowAcrossRestarts
<1>1. ASSUME IInv, NEW u \in Users
      PROVE  Cardinality(admitted[u]) <= Limit * Counters(u) + failures[u]
  <2>1. /\ Limit \in Nat /\ lives[u] \in Nat /\ hits[u] \in Nat /\ failures[u] \in Nat
        /\ Cardinality(admitted[u]) \in Nat
        /\ UsesRedis => lives[u] = 0
        /\ Cardinality(admitted[u]) <= Allowed(Limit, lives[u], hits[u]) + failures[u]
    BY <1>1, BoundAssumption, SizeOfSubset DEF IInv, TypeOK, Bounded
  <2>2. /\ Allowed(Limit, lives[u], hits[u]) \in Nat
        /\ Allowed(Limit, lives[u], 0) = Limit * lives[u]
        /\ Allowed(Limit, lives[u], hits[u]) <= Limit * (lives[u] + 1)
        /\ Limit * lives[u] \in Nat /\ Limit * (lives[u] + 1) \in Nat
    BY <2>1, AllowedHit, AllowedNext
  <2>3. CASE UsesRedis
    <3>1. Counters(u) = lives[u] + 1
      BY <2>1, <2>3 DEF Counters, UsesRedis
    <3> QED BY <2>1, <2>2, <3>1
  <2>4. CASE ~UsesRedis
    <3>1. CASE hits[u] = 0
      <4>1. Counters(u) = lives[u]
        BY <2>1, <2>4, <3>1 DEF Counters, UsesRedis
      <4> QED BY <2>1, <2>2, <3>1, <4>1
    <3>2. CASE hits[u] # 0
      <4>1. Counters(u) = lives[u] + 1
        BY <2>1, <2>4, <3>2 DEF Counters, UsesRedis
      <4> QED BY <2>1, <2>2, <4>1
    <3> QED BY <3>1, <3>2
  <2> QED BY <2>3, <2>4
<1>2. IInv => WindowAcrossRestarts
  BY <1>1 DEF WindowAcrossRestarts
<1> QED BY <1>2, IInvCorrect, PTL

\* A request is refused only when more than Limit requests of its user were
\* counted in the window: it counts once, and nothing else counts for the user.
THEOREM RefusedOnlyWhenSpentCorrect == Spec => RefusedOnlyWhenSpent
<1>1. ASSUME IInv, [Next]_vars, NEW r \in Requests, pc[r] = "limiter", pc'[r] = "refused"
      PROVE  Cardinality(judged'[kind[r].user]) > Limit
  <2>1. Hit(r)
    <3> USE <1>1 DEF limiter, requests, process, Goes, Responds, IInv, TypeOK
    <3>1. ASSUME NEW q \in Requests,
                 \/ Arrive(q) \/ BodyStops(q) \/ Enter(q) \/ HitFails(q) \/ Judge(q)
                 \/ Handle(q) \/ Complete(q) \/ Throws(q) \/ ThrowsUncaught(q)
          PROVE  FALSE
      <4>1. \E where \in Control \ {"refused"} : pc' = [pc EXCEPT ![q] = where]
        BY <3>1 DEF Arrive, BodyStops, Enter, HitFails, Judge, Handle, Complete, Throws,
                    ThrowsUncaught, ErrorHandler, LetThrough, Control, Waiting, Uncounted
      <4> QED BY <4>1
    <3>2. ASSUME NEW q \in Requests, Hit(q) PROVE q = r
      <4>1. \E where \in {"admitted", "refused"} : pc' = [pc EXCEPT ![q] = where]
        BY <3>2 DEF Hit, LetThrough
      <4> QED BY <4>1
    <3>3. ~Ends
      BY DEF Ends, Working
    <3>4. CASE Start \/ Listen \/ Signal \/ DisconnectFails \/ UNCHANGED vars
      BY <3>4 DEF Start, Listen, Signal, Shutdown, DisconnectFails, vars
    <3>5. ASSUME NEW u \in Users, Expire(u) PROVE FALSE
      BY <3>5 DEF Expire
    <3> QED BY <3>1, <3>2, <3>3, <3>4, <3>5 DEF Next, Serves, StartFails, Disconnected, Kill
  <2>2. kind[r].user \in Users
    BY <1>1, UserOfRequest DEF IInv
  <2>3. hits'[kind[r].user] > Limit
    BY <1>1, <2>1, <2>2, BoundAssumption DEF Hit, LetThrough, Goes, IInv, TypeOK
  <2>4. LimiterInv' /\ TypeOK'
    BY <1>1, LimiterStep, ResponseStep DEF IInv
  <2>5. hits'[kind[r].user] <= Cardinality(judged'[kind[r].user])
    BY <2>2, <2>4 DEF LimiterInv, HitsAreRequests
  <2>6. hits'[kind[r].user] \in Nat /\ judged'[kind[r].user] \in SUBSET Requests
    BY <2>2, <2>4 DEF TypeOK
  <2>7. Cardinality(judged'[kind[r].user]) \in Nat
    BY <2>6, SizeOfSubset
  <2> QED BY <2>3, <2>5, <2>6, <2>7, BoundAssumption
<1>2. IInv /\ [Next]_vars =>
        [\A r \in Requests : pc[r] = "limiter" /\ pc'[r] = "refused"
           => Cardinality(judged'[kind[r].user]) > Limit]_vars
  BY <1>1
<1> QED BY <1>2, IInvCorrect, PTL DEF Spec, RefusedOnlyWhenSpent

\* A response has one status, whatever is thrown after it began.
THEOREM StatusIsFinalCorrect == Spec => StatusIsFinal
<1>1. IInv /\ [Next]_vars =>
        [\A r \in Requests : status[r] # 0 => status'[r] = status[r]]_vars
  BY StatusStep DEF IInv
<1> QED BY <1>1, IInvCorrect, PTL DEF Spec, StatusIsFinal

=============================================================================
