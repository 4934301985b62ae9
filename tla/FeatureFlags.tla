---------------------------- MODULE FeatureFlags ----------------------------
(***************************************************************************)
(* The flag store and the admin routes that write it.  Three places bound  *)
(* a flag: the schema of the environment, the schemas of the admin routes  *)
(* and the validators of the store; only the last guards every write, and  *)
(* the constructor does not use it.                                        *)
(*                                                                         *)
(* A value is what the checks tell apart: a boolean, an integer, or        *)
(* anything else (a string, a fraction, null).                             *)
(***************************************************************************)
EXTENDS Integers

CONSTANTS
  Switches,   \* keys of boolean flags
  PageSizes,  \* PAGINATION_LIMIT
  Counts,     \* RATE_LIMIT_PER_MINUTE, CHAT_HISTORY_LIMITED_COUNT
  Samples     \* bound: the integers that are ever tried

Keys == Switches \cup PageSizes \cup Counts

ASSUME KeyAssumption ==
  /\ Switches \cap (PageSizes \cup Counts) = {}
  /\ PageSizes \cap Counts = {}
ASSUME SampleAssumption == Samples \subseteq Int

VARIABLES
  process,  \* the server process: "down", "up", or "exited" at startup
  flags,    \* _flags
  events,   \* the 'change' events of the last step
  asked,    \* the flags the last request names, and their values
  status    \* the status of its response, 0 without one

vars == <<process, flags, events, asked, status>>

Number(i) == [type |-> "integer", n |-> i]
False == [type |-> "boolean", n |-> 0]
True == [type |-> "boolean", n |-> 1]
Other == [type |-> "other", n |-> 0]

Nothing == [k \in {} |-> Other]
Values == {False, True, Other} \cup {Number(i) : i \in Samples}
Partial == UNION {[D -> Values] : D \in SUBSET Keys}

-----------------------------------------------------------------------------
(* The three places *)

\* FEATURE_FLAG_VALIDATORS
Validator(k, v) ==
  \/ k \in Switches /\ v.type = "boolean"
  \/ k \in PageSizes /\ v.type = "integer" /\ v.n >= 10 /\ v.n <= 100
  \/ k \in Counts /\ v.type = "integer" /\ v.n > 0

\* The admin routes.  PATCH takes any boolean or integer for any flag.
FlagBody(v) == v.type \in {"boolean", "integer"}

\* Slip: the schema of the reload route is laxer than the validators.
ReloadBodyLax(k, v) == v.type = (IF k \in Switches THEN "boolean" ELSE "integer")

ReloadBody(k, v) ==
  \/ k \in Switches /\ v.type = "boolean"
  \/ k \in PageSizes /\ v.type = "integer" /\ v.n \in 10..100
  \/ k \in Counts /\ v.type = "integer" /\ v.n >= 1

\* The environment.  A switch is on when its text is exactly "true"; the text
\* of a number is coerced, and an empty one is 0.
EnvDefault(k) ==
  IF k \in Switches THEN True
  ELSE IF k \in PageSizes THEN Number(20)
  ELSE IF k = "RATE_LIMIT_PER_MINUTE" THEN Number(60) ELSE Number(10)

EnvAccepts(env) ==
  \A k \in DOMAIN env \ Switches :
    env[k].type = "integer" /\ (IF k \in PageSizes THEN env[k].n \in 10..100 ELSE env[k].n > 0)

EnvValue(env, k) ==
  IF k \notin DOMAIN env THEN EnvDefault(k)
  ELSE IF k \notin Switches THEN env[k]
  ELSE IF env[k] = True THEN True ELSE False

-----------------------------------------------------------------------------
Init ==
  /\ process = "down"
  /\ flags = [k \in Keys |-> EnvDefault(k)]
  /\ events = {}
  /\ asked = Nothing
  /\ status = 0

\* Slip: the environment is completed but not parsed.
BootUnchecked(env) ==
  /\ process = "down"
  /\ process' = "up" /\ flags' = [k \in Keys |-> EnvValue(env, k)]
  /\ UNCHANGED <<events, asked, status>>

\* The process starts, or exits because the environment does not parse.  Every
\* flag comes from the environment: the defaults of the registry never show.
Boot(env) ==
  /\ process = "down"
  /\ IF EnvAccepts(env)
       THEN process' = "up" /\ flags' = [k \in Keys |-> EnvValue(env, k)]
       ELSE process' = "exited" /\ UNCHANGED flags
  /\ UNCHANGED <<events, asked, status>>

\* Slip: the event is built after the assignment.
EventLate(k, v) == [key |-> k, prev |-> v, next |-> v]

Event(k, v) == [key |-> k, prev |-> flags[k], next |-> v]

Respond(code, body) == status' = code /\ asked' = body

\* Nothing is written.
Refuse(code, body) ==
  /\ process = "up"
  /\ Respond(code, body)
  /\ events' = {}
  /\ UNCHANGED <<process, flags>>

\* set() emits even when the value stays the same.
Patch(k, v) ==
  /\ process = "up" /\ FlagBody(v)
  /\ IF Validator(k, v)
       THEN /\ flags' = [flags EXCEPT ![k] = v]
            /\ events' = {Event(k, v)}
            /\ Respond(200, [j \in {k} |-> v])
       ELSE /\ Respond(400, [j \in {k} |-> v])
            /\ events' = {}
            /\ UNCHANGED flags
  /\ UNCHANGED process

\* reload() skips what its validator rejects, and what stays the same.
Written(body) == {k \in DOMAIN body : Validator(k, body[k]) /\ flags[k] # body[k]}

Reload(body) ==
  /\ process = "up" /\ \A k \in DOMAIN body : ReloadBody(k, body[k])
  /\ flags' = [k \in Keys |-> IF k \in Written(body) THEN body[k] ELSE flags[k]]
  /\ events' = {Event(k, body[k]) : k \in Written(body)}
  /\ Respond(200, body)
  /\ UNCHANGED process

\* A missing token (401), an unknown key for PATCH (400), no value or an unknown
\* key for reload (422), a body that is no JSON (500), and values that validate()
\* rejects before the handler runs.
Refused ==
  \/ \E code \in {401, 400, 422, 500} : Refuse(code, Nothing)
  \/ \E k \in Keys, v \in Values : ~FlagBody(v) /\ Refuse(422, [j \in {k} |-> v])
  \/ \E body \in Partial :
       (\E k \in DOMAIN body : ~ReloadBody(k, body[k])) /\ Refuse(422, body)

Next ==
  \/ \E env \in Partial : Boot(env)
  \/ \E k \in Keys, v \in Values : Patch(k, v)
  \/ \E body \in Partial : Reload(body)
  \/ Refused

Spec == Init /\ [][Next]_vars

-----------------------------------------------------------------------------
(* Properties *)

\* Every flag of the registry has some value, whatever the environment sets.
TypeOK ==
  /\ process \in {"down", "up", "exited"}
  /\ flags \in [Keys -> [type : {"boolean", "integer", "other"}, n : Int]]
  /\ status \in {0, 200, 400, 401, 422, 500}

\* "Per-flag validators guarantee bad values can never be stored": what the
\* constructor takes from the environment without asking a validator, and
\* what any sequence of PATCH and reload makes of it, is valid for its flag.
NeverPoisoned == process = "up" => \A k \in Keys : Validator(k, flags[k])

\* A 200 means that every flag the request names has the value it names and
\* no other flag moved: the schema of the reload route is at least as strict
\* as the validators, which skip in silence.  A refusal changes nothing.
Applied ==
  process = "up" =>
    IF status' = 200
      THEN flags' = [k \in Keys |-> IF k \in DOMAIN asked' THEN asked'[k] ELSE flags[k]]
      ELSE flags' = flags

AcceptedMeansApplied == [][Applied]_vars

\* Who replays the 'change' events of a step on the old flags gets the new
\* ones, and each event tells the value that was overwritten.
ChangesAreTold ==
  [][process = "up" =>
       /\ \A e \in events' : e.prev = flags[e.key] /\ e.next = flags'[e.key]
       /\ \A k \in Keys : flags'[k] # flags[k] => \E e \in events' : e.key = k]_vars

=============================================================================
