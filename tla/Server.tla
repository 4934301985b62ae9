------------------------------- MODULE Server --------------------------------
(***************************************************************************)
(* The life of the process and of the requests in it: server.ts starts,    *)
(* connects, listens and shuts down; app.ts and the routers take a request *)
(* through body parsing, app check, auth, limiter and validation to its    *)
(* handler, and the error handler answers what fails.  What limiter and    *)
(* completion do inside is in the modules RateLimiter and Completion; here *)
(* they meet signals, crashes and restarts.                                *)
(***************************************************************************)
EXTENDS Naturals, FiniteSets

CONSTANTS
  Requests,   \* requests, each of which is made once
  Users,
  Kinds,      \* what each request may be
  Configs,    \* the environments the service may be started in
  Limit,      \* RATE_LIMIT_PER_MINUTE
  MaxStarts,  \* bound: how often the process is started
  MaxClosing  \* bound: signals it gets beyond its uncaught exceptions

Faults == {"json", "attestation", "token", "input"}
Guarded == {"chats", "completion"}
Routes == Guarded \cup {"health", "login", "unknown"}

ASSUME KindAssumption ==
  \A r \in Requests :
    /\ Kinds[r] # {}
    /\ Kinds[r] \subseteq [route : Routes, user : Users, faults : SUBSET Faults]
ASSUME ConfigAssumption ==
  Configs \subseteq [appCheck : BOOLEAN, demoLogin : BOOLEAN, redis : BOOLEAN,
                     redisUrl : BOOLEAN, aiReady : BOOLEAN]
ASSUME RequestAssumption == IsFiniteSet(Requests)
ASSUME BoundAssumption == {Limit, MaxStarts, MaxClosing} \subseteq Nat

VARIABLES
  config,    \* the environment; aiReady: the provider's constructor does not throw
  proc,      \* "down", "starting", "listening" or, after server.close(), "closed"
  starts,    \* how often it was started
  closing,   \* calls of shutdown() that await database.disconnect()
  pc,        \* where a request is
  kind,      \* what it is, once it has arrived
  status,    \* of its response, 0 while there is none
  hits,      \* the limiter's count of a user, in its window
  (* history of the properties *)
  judged,    \* the requests of a user that were counted in its window
  admitted,  \* the requests of a user that were let through in its window
  failures,  \* how often the store failed it in that window
  lives,     \* ended processes that had counted in that window
  failed     \* $disconnect was rejected in this process

process == <<config, proc, starts, closing, failed>>
limiter == <<hits, judged, admitted, failures, lives>>
requests == <<pc, kind, status>>
vars == <<process, limiter, requests>>

Alive == proc \in {"listening", "closed"}

\* The awaits at which a request may stand
Working == {"body", "limiter", "admitted", "refused", "handler", "streaming", "storing"}

\* Slip: the store is not asked for at all.
UsesRedisNever == FALSE

\* buildContainer: without a URL the store is the Map, whatever was asked for.
UsesRedis == config.redis /\ config.redisUrl

Init ==
  /\ config \in Configs
  /\ proc = "down" /\ starts = 0 /\ closing = 0 /\ failed = FALSE
  /\ pc = [r \in Requests |-> "none"]
  /\ kind = [r \in Requests |-> CHOOSE k \in Kinds[r] : TRUE]
  /\ status = [r \in Requests |-> 0]
  /\ hits = [u \in Users |-> 0]
  /\ judged = [u \in Users |-> {}] /\ admitted = [u \in Users |-> {}]
  /\ failures = [u \in Users |-> 0] /\ lives = [u \in Users |-> 0]

-----------------------------------------------------------------------------
(* The process *)

\* The end of the process cuts what it was doing and forgets the Map.
Ends ==
  /\ proc' = "down" /\ closing' = 0 /\ failed' = FALSE
  /\ pc' = [r \in Requests |-> IF pc[r] \in Working THEN "cut" ELSE pc[r]]
  /\ IF UsesRedis THEN UNCHANGED <<hits, lives>>
       ELSE /\ hits' = [u \in Users |-> 0]
            /\ lives' = [u \in Users |-> IF hits[u] > 0 THEN lives[u] + 1 ELSE lives[u]]
  /\ UNCHANGED <<config, starts, kind, status, judged, admitted, failures>>

\* The restart policy, or an operator
Start ==
  /\ proc = "down" /\ starts < MaxStarts
  /\ proc' = "starting" /\ starts' = starts + 1
  /\ UNCHANGED <<config, closing, failed, limiter, requests>>

\* database.connect() returns; the rest of main() has no await, and an
\* OpenAIProvider without its key throws.
Listen ==
  /\ proc = "starting" /\ config.aiReady
  /\ proc' = "listening"
  /\ UNCHANGED <<config, starts, closing, failed, limiter, requests>>

\* main() is rejected, or a signal finds no listener yet.
StartFails == proc = "starting" /\ Ends

\* shutdown(), up to the await: each signal and each uncaught exception runs it.
Shutdown ==
  /\ proc' = "closed" /\ closing' = closing + 1
  /\ UNCHANGED <<config, starts, failed>>

Signal ==
  /\ Alive /\ closing < MaxClosing
  /\ Shutdown /\ UNCHANGED <<limiter, requests>>

\* Slip: the process is left to end by itself.
DisconnectedOnly ==
  /\ closing > 0 /\ closing' = closing - 1
  /\ UNCHANGED <<config, proc, starts, failed, limiter, requests>>

\* process.exit(0) follows at once: nothing waits for server.close().
Disconnected == closing > 0 /\ Ends

\* The rejection is only logged, and the process stays as it is.
DisconnectFails ==
  /\ closing > 0 /\ closing' = closing - 1 /\ failed' = TRUE
  /\ UNCHANGED <<config, proc, starts, limiter, requests>>

Kill == Alive /\ Ends

-----------------------------------------------------------------------------
(* Requests *)

Has(r, fault) == fault \in kind[r].faults
Goes(r, where) == pc' = [pc EXCEPT ![r] = where]
Responds(r, code) == Goes(r, "done") /\ status' = [status EXCEPT ![r] = code]

\* A connection that is kept alive brings requests after server.close() too.
Arrive(r) ==
  /\ Alive /\ pc[r] = "none"
  /\ Goes(r, "body") /\ \E k \in Kinds[r] : kind' = [kind EXCEPT ![r] = k]
  /\ UNCHANGED <<process, limiter, status>>

\* The client leaves, or the rest of its body never comes.
BodyStops(r) ==
  /\ Alive /\ pc[r] = "body"
  /\ Goes(r, "cut")
  /\ UNCHANGED <<process, limiter, kind, status>>

\* From the body on nothing is awaited until the limiter or the handler.  The
\* error of express.json is no AppError, so it becomes 500.
Enter(r) ==
  /\ Alive /\ pc[r] = "body"
  /\ CASE Has(r, "json") -> Responds(r, 500)
       [] kind[r].route = "unknown" \/ (kind[r].route = "login" /\ ~config.demoLogin)
            -> Responds(r, 404)
       [] kind[r].route \in Guarded /\ config.appCheck /\ Has(r, "attestation")
            -> Responds(r, 401)
       [] kind[r].route \in Guarded /\ Has(r, "token") -> Responds(r, 401)
       [] kind[r].route \in Guarded -> Goes(r, "limiter") /\ UNCHANGED status
       [] kind[r].route = "login" /\ Has(r, "input") -> Responds(r, 422)
       [] OTHER -> Goes(r, "handler") /\ UNCHANGED status
  /\ UNCHANGED <<process, limiter, kind>>

\* Slip: the chain of the first router runs for the routes of the second too.
ChainsTwice(r) == IF kind[r].route = "completion" THEN 2 ELSE 1

\* The chain is on the routes, so both routers under /api/chats count a request once.
Chains(r) == 1

\* One hit at the store
Counts(r) ==
  LET u == kind[r].user
  IN  /\ hits' = [hits EXCEPT ![u] = @ + Chains(r)]
      /\ judged' = [judged EXCEPT ![u] = @ \cup {r}]

LetThrough(r) ==
  Goes(r, "admitted") /\ admitted' = [admitted EXCEPT ![kind[r].user] = @ \cup {r}]

\* The store counts; what the middleware will do with the count is settled.
Hit(r) ==
  /\ Alive /\ pc[r] = "limiter"
  /\ Counts(r)
  /\ IF hits'[kind[r].user] > Limit
       THEN Goes(r, "refused") /\ UNCHANGED admitted
       ELSE LetThrough(r)
  /\ UNCHANGED <<process, failures, lives, kind, status>>

\* Slip: the rejection of the middleware reaches nobody.
HitFailsUnseen(r) ==
  /\ Alive /\ pc[r] = "limiter" /\ UsesRedis
  /\ Goes(r, "hung")
  /\ UNCHANGED <<process, limiter, kind, status>>

\* hit() throws: Redis was not reached, or it counted and its reply was lost.
\* The request is let through either way.
HitFails(r) ==
  /\ Alive /\ pc[r] = "limiter" /\ UsesRedis
  /\ Counts(r) \/ UNCHANGED <<hits, judged>>
  /\ LetThrough(r)
  /\ failures' = [failures EXCEPT ![kind[r].user] = @ + 1]
  /\ UNCHANGED <<process, lives, kind, status>>

\* The answer of the store arrives: 429, or validate() and the handler.
Judge(r) ==
  /\ Alive
  /\ \/ pc[r] = "refused" /\ Responds(r, 429)
     \/ pc[r] = "admitted" /\ Has(r, "input") /\ Responds(r, 422)
     \/ pc[r] = "admitted" /\ ~Has(r, "input") /\ Goes(r, "handler") /\ UNCHANGED status
  /\ UNCHANGED <<process, limiter, kind>>

\* What a handler answers when nothing is thrown
Answers(route) ==
  CASE route = "health" -> {200, 503}
    [] route = "chats"  -> {200, 201}
    [] OTHER            -> {200}

Handle(r) ==
  /\ Alive /\ pc[r] = "handler" /\ kind[r].route # "completion"
  /\ \E code \in Answers(kind[r].route) : Responds(r, code)
  /\ UNCHANGED <<process, limiter, kind>>

\* A completion begins its stream, or ends its response at once; it stores the
\* answer when the response has ended.
Complete(r) ==
  /\ Alive /\ kind[r].route = "completion"
  /\ \/ /\ pc[r] = "handler" /\ status' = [status EXCEPT ![r] = 200]
        /\ \E where \in {"streaming", "storing"} : Goes(r, where)
     \/ pc[r] = "streaming" /\ Goes(r, "storing") /\ UNCHANGED status
     \/ pc[r] = "storing" /\ Goes(r, "done") /\ UNCHANGED status
  /\ UNCHANGED <<process, limiter, kind>>

\* Slip: no look at headersSent.
ErrorHandlerAgain(r, code) == Responds(r, code)

\* A response that has begun can only be ended.
ErrorHandler(r, code) ==
  IF status[r] = 0 THEN Responds(r, code) ELSE Goes(r, "done") /\ UNCHANGED status

\* Something is thrown: by the handler (the chat is not there, the database or
\* the provider fails), or after the stream began.  The probe of /health catches.
Throws(r) ==
  /\ Alive /\ kind[r].route # "health"
  /\ \/ pc[r] = "handler" /\ \E code \in {404, 500} : ErrorHandler(r, code)
     \/ pc[r] \in {"streaming", "storing"} /\ ErrorHandler(r, 500)
  /\ UNCHANGED <<process, limiter, kind>>

\* The answer cannot be stored and the response, ended but not yet flushed, emits
\* the error of a write after its end, for which nobody listens.
ThrowsUncaught(r) ==
  /\ Alive /\ pc[r] = "storing"
  /\ ErrorHandler(r, 500)
  /\ Shutdown
  /\ UNCHANGED <<limiter, kind>>

\* The window of a user is over, of the Map or the key.
Expire(u) ==
  /\ judged[u] # {}
  /\ hits' = [hits EXCEPT ![u] = 0]
  /\ judged' = [judged EXCEPT ![u] = {}] /\ admitted' = [admitted EXCEPT ![u] = {}]
  /\ failures' = [failures EXCEPT ![u] = 0] /\ lives' = [lives EXCEPT ![u] = 0]
  /\ UNCHANGED <<process, requests>>

-----------------------------------------------------------------------------
Serves(r) ==
  \/ Enter(r) \/ BodyStops(r) \/ Hit(r) \/ HitFails(r) \/ Judge(r)
  \/ Handle(r) \/ Complete(r) \/ Throws(r) \/ ThrowsUncaught(r)

Next ==
  \/ Start \/ Listen \/ StartFails \/ Signal \/ Disconnected \/ DisconnectFails \/ Kill
  \/ \E r \in Requests : Arrive(r) \/ Serves(r)
  \/ \E u \in Users : Expire(u)

Spec == Init /\ [][Next]_vars

\* The event loop runs every callback, the database and the provider answer or
\* fail, $disconnect settles.  Nobody need start, signal, kill or ask.
Fairness ==
  /\ WF_vars(Listen \/ StartFails)
  /\ WF_vars(Disconnected \/ DisconnectFails)
  /\ \A r \in Requests : WF_vars(Serves(r))

FairSpec == Spec /\ Fairness

-----------------------------------------------------------------------------
(* What is promised *)

\* What counts a user in its window: one Redis, or the Map of every process
\* that counted.
Counters(u) ==
  IF config.redis /\ config.redisUrl THEN 1
    ELSE lives[u] + IF hits[u] > 0 THEN 1 ELSE 0

\* Of a user's requests, every counter of its window lets Limit through, and
\* every failure of the store one more: a restart gives nothing away over Redis,
\* and over a Map one more Limit and only if the ended process had counted.
WindowAcrossRestarts ==
  \A u \in Users : Cardinality(admitted[u]) <= Limit * Counters(u) + failures[u]

\* Nobody is refused before Limit other requests were counted in the window:
\* not by a second chain, a restart or a request without a valid token.
RefusedOnlyWhenSpent ==
  [][\A r \in Requests : pc[r] = "limiter" /\ pc'[r] = "refused"
       => Cardinality(judged'[kind[r].user]) > Limit]_vars

\* A response has one status, whatever fails after it began.
StatusIsFinal ==
  [][\A r \in Requests : status[r] # 0 => status'[r] = status[r]]_vars

\* A request ends: it is answered, or its process or its client is gone.
EveryRequestEnds ==
  \A r \in Requests : pc[r] \in Working ~> pc[r] \in {"done", "cut"}

\* shutdown() ends the process, unless $disconnect is rejected.
ShutdownEnds == closing > 0 ~> proc = "down" \/ failed
=============================================================================
