------------------------------ MODULE MCServer -------------------------------
(* One request that takes any way through the pipeline, among others that are *)
(* counted for the same user or another.                                      *)
EXTENDS Server

CONSTANTS u1, u2, r1, r2, r3

Good(route, u) == [route |-> route, user |-> u, faults |-> {}]
Bad(route, u, fault) == [route |-> route, user |-> u, faults |-> {fault}]

Any ==
  {Good("chats", u1), Good("completion", u1), Good("health", u1), Good("login", u1),
   Good("unknown", u1), Bad("chats", u1, "attestation"), Bad("chats", u1, "token"),
   Bad("login", u1, "input"), Bad("health", u1, "json")}

MCKinds ==
  [r \in Requests |->
     CASE r = r1 -> Any
       [] r = r2 -> {Bad("chats", u1, "input"), Bad("chats", u2, "input")}
       [] OTHER  -> {Bad("chats", u1, "input")}]

\* App check and demo login do not meet the choice of the store, so all three are
\* switched together: with the Map, with Redis, and with Redis but no URL for it.
MCConfigs ==
  {[appCheck |-> on, demoLogin |-> on, redis |-> r, redisUrl |-> r /\ on, aiReady |-> TRUE] :
     <<on, r>> \in {<<TRUE, FALSE>>, <<TRUE, TRUE>>, <<FALSE, TRUE>>}}
    \cup {[appCheck |-> FALSE, demoLogin |-> FALSE, redis |-> FALSE, redisUrl |-> TRUE,
           aiReady |-> FALSE]}
=============================================================================
