------------------------------ MODULE FlagProofs ------------------------------
(***************************************************************************)
(* Theorems about FeatureFlags, for any flags and any integers: the store  *)
(* never holds an invalid value, and a 200 means what it says.             *)
(***************************************************************************)
EXTENDS FeatureFlags, TLAPS

Value == [type : {"boolean", "integer", "other"}, n : Int]

\* What a body or an environment holds are values of some of the flags.
LEMMA PartialTypes ==
  ASSUME NEW body \in Partial
  PROVE  DOMAIN body \subseteq Keys /\ \A k \in DOMAIN body : body[k] \in Values
BY DEF Partial

LEMMA ValueTypes == Values \subseteq Value
BY SampleAssumption DEF Values, Value, True, False, Other, Number

LEMMA DefaultTypes ==
  ASSUME NEW k \in Keys
  PROVE  EnvDefault(k) \in Value /\ Validator(k, EnvDefault(k))
<1>1. CASE k \in Switches
  <2>1. EnvDefault(k) = True
    BY <1>1, KeyAssumption DEF EnvDefault
  <2> QED BY <1>1, <2>1 DEF Value, True, Validator
<1>2. CASE k \in PageSizes
  <2>1. EnvDefault(k) = Number(20)
    BY <1>2, KeyAssumption DEF EnvDefault
  <2> QED BY <1>2, <2>1 DEF Value, Number, Validator
<1>3. CASE k \in Counts
  <2>1. EnvDefault(k) \in {Number(60), Number(10)}
    BY <1>3, KeyAssumption DEF EnvDefault
  <2> QED BY <1>3, <2>1 DEF Value, Number, Validator
<1> QED BY <1>1, <1>2, <1>3 DEF Keys

\* A parsed environment gives every flag a value that is valid for it.
LEMMA EnvTypes ==
  ASSUME NEW env \in Partial, NEW k \in Keys
  PROVE  /\ EnvValue(env, k) \in Value
         /\ EnvAccepts(env) => Validator(k, EnvValue(env, k))
<1>1. CASE k \notin DOMAIN env
  BY <1>1, DefaultTypes DEF EnvValue
<1>2. CASE k \in DOMAIN env /\ k \in Switches
  BY <1>2 DEF EnvValue, Value, True, False, Validator
<1>3. CASE k \in DOMAIN env /\ k \notin Switches
  <2>1. EnvValue(env, k) = env[k] /\ env[k] \in Value
    BY <1>3, PartialTypes, ValueTypes DEF EnvValue
  <2>2. EnvAccepts(env) => Validator(k, env[k])
    <3> SUFFICES ASSUME EnvAccepts(env) PROVE Validator(k, env[k])
      OBVIOUS
    <3>1. /\ env[k].type = "integer"
          /\ IF k \in PageSizes THEN env[k].n \in 10..100 ELSE env[k].n > 0
      BY <1>3 DEF EnvAccepts
    <3> QED BY <1>3, <2>1, <3>1 DEF Validator, Keys, Value
  <2> QED BY <2>1, <2>2
<1> QED BY <1>1, <1>2, <1>3

\* The schema of the reload route is at least as strict as the validators.
LEMMA ReloadBodyIsStrict ==
  ASSUME NEW k, NEW v \in Value, ReloadBody(k, v)
  PROVE  Validator(k, v)
BY DEF ReloadBody, Validator, Value

-----------------------------------------------------------------------------
IInv == TypeOK /\ NeverPoisoned

LEMMA InitIInv == Init => IInv
BY DefaultTypes DEF Init, IInv, TypeOK, NeverPoisoned, Value

LEMMA BootIInv == ASSUME IInv, NEW env \in Partial, Boot(env) PROVE IInv'
<1>1. CASE EnvAccepts(env)
  BY <1>1, EnvTypes DEF IInv, TypeOK, NeverPoisoned, Boot, Value
<1>2. CASE ~EnvAccepts(env)
  BY <1>2 DEF IInv, TypeOK, NeverPoisoned, Boot
<1> QED BY <1>1, <1>2

LEMMA PatchIInv == ASSUME IInv, NEW k \in Keys, NEW v \in Values, Patch(k, v) PROVE IInv'
<1>1. CASE Validator(k, v)
  BY <1>1, ValueTypes DEF IInv, TypeOK, NeverPoisoned, Patch, Respond, Value
<1>2. CASE ~Validator(k, v)
  BY <1>2 DEF IInv, TypeOK, NeverPoisoned, Patch, Respond
<1> QED BY <1>1, <1>2

LEMMA ReloadIInv == ASSUME IInv, NEW body \in Partial, Reload(body) PROVE IInv'
<1>1. \A k \in Written(body) : k \in Keys /\ body[k] \in Value /\ Validator(k, body[k])
  BY PartialTypes, ValueTypes DEF Written
<1> QED BY <1>1 DEF IInv, TypeOK, NeverPoisoned, Reload, Respond, Value

\* A refusal writes the response and nothing else.
LEMMA RefusedMeans ==
  ASSUME Refused
  PROVE  status' \in {400, 401, 422, 500} /\ events' = {} /\ UNCHANGED <<process, flags>>
<1>1. CASE \E code \in {401, 400, 422, 500} : Refuse(code, Nothing)
  BY <1>1 DEF Refuse, Respond
<1>2. ASSUME NEW k \in Keys, NEW v \in Values, Refuse(422, [j \in {k} |-> v])
      PROVE  status' \in {400, 401, 422, 500} /\ events' = {} /\ UNCHANGED <<process, flags>>
  BY <1>2 DEF Refuse, Respond
<1>3. ASSUME NEW body \in Partial, Refuse(422, body)
      PROVE  status' \in {400, 401, 422, 500} /\ events' = {} /\ UNCHANGED <<process, flags>>
  BY <1>3 DEF Refuse, Respond
<1> QED BY <1>1, <1>2, <1>3 DEF Refused

LEMMA RefusedIInv == ASSUME IInv, Refused PROVE IInv'
BY RefusedMeans DEF IInv, TypeOK, NeverPoisoned

LEMMA StepIInv == IInv /\ [Next]_vars => IInv'
<1> SUFFICES ASSUME IInv, [Next]_vars PROVE IInv'
  OBVIOUS
<1>1. CASE UNCHANGED vars
  BY <1>1 DEF vars, IInv, TypeOK, NeverPoisoned
<1>2. CASE Next
  BY <1>2, BootIInv, PatchIInv, ReloadIInv, RefusedIInv DEF Next
<1> QED BY <1>1, <1>2

\* Every flag of the registry has some value, whatever the environment sets.
THEOREM TypeCorrect == Spec => []TypeOK
<1>1. IInv => TypeOK
  BY DEF IInv
<1> QED BY <1>1, InitIInv, StepIInv, PTL DEF Spec

\* Whatever the environment and the administrators do, no flag ever holds a
\* value its validator refuses.
THEOREM NeverPoisonedCorrect == Spec => []NeverPoisoned
<1>1. IInv => NeverPoisoned
  BY DEF IInv
<1> QED BY <1>1, InitIInv, StepIInv, PTL DEF Spec

-----------------------------------------------------------------------------
LEMMA PatchApplies == ASSUME TypeOK, NEW k \in Keys, NEW v \in Values, Patch(k, v) PROVE Applied
BY DEF TypeOK, Patch, Respond, Applied

LEMMA ReloadApplies == ASSUME TypeOK, NEW body \in Partial, Reload(body) PROVE Applied
<1>1. \A k \in DOMAIN body : k \in Keys /\ Validator(k, body[k])
  BY PartialTypes, ValueTypes, ReloadBodyIsStrict DEF Reload
<1>2. \A k \in Keys : (IF k \in Written(body) THEN body[k] ELSE flags[k])
                    = (IF k \in DOMAIN body THEN body[k] ELSE flags[k])
  BY <1>1 DEF Written
<1> QED BY <1>2 DEF Reload, Respond, Applied

LEMMA NextApplies == ASSUME TypeOK, Next PROVE Applied
<1>1. ASSUME NEW env \in Partial, Boot(env) PROVE Applied
  BY <1>1 DEF Boot, Applied
<1>2. ASSUME Refused PROVE Applied
  BY <1>2, RefusedMeans DEF Applied
<1> QED BY <1>1, <1>2, PatchApplies, ReloadApplies DEF Next

\* A 200 means that the flags it names, and only they, have the values it
\* names; a refusal changes nothing.
THEOREM AcceptedMeansAppliedCorrect == Spec => AcceptedMeansApplied
<1>1. TypeOK /\ [Next]_vars => [Applied]_vars
  BY NextApplies
<1> QED BY <1>1, TypeCorrect, PTL DEF Spec, AcceptedMeansApplied

-----------------------------------------------------------------------------
(* The events of a step are the difference it made *)

Told ==
  process = "up" =>
    /\ \A e \in events' : e.prev = flags[e.key] /\ e.next = flags'[e.key]
    /\ \A k \in Keys : flags'[k] # flags[k] => \E e \in events' : e.key = k

LEMMA PatchTells == ASSUME TypeOK, NEW k \in Keys, NEW v \in Values, Patch(k, v) PROVE Told
<1>1. CASE Validator(k, v)
  <2>1. flags' = [flags EXCEPT ![k] = v] /\ events' = {Event(k, v)}
    BY <1>1 DEF Patch
  <2> QED BY <2>1 DEF TypeOK, Event, Told
<1>2. CASE ~Validator(k, v)
  BY <1>2 DEF Patch, Told
<1> QED BY <1>1, <1>2

LEMMA ReloadTells == ASSUME TypeOK, NEW body \in Partial, Reload(body) PROVE Told
<1>1. Written(body) \subseteq Keys
  BY PartialTypes DEF Written
<1>2. /\ flags' = [k \in Keys |-> IF k \in Written(body) THEN body[k] ELSE flags[k]]
      /\ events' = {Event(k, body[k]) : k \in Written(body)}
  BY DEF Reload
<1>3. ASSUME NEW e \in events' PROVE e.prev = flags[e.key] /\ e.next = flags'[e.key]
  <2>1. PICK k \in Written(body) : e = Event(k, body[k])
    BY <1>2, <1>3
  <2>2. e.key = k /\ e.prev = flags[k] /\ e.next = body[k]
    BY <2>1 DEF Event
  <2> QED BY <1>1, <1>2, <2>2
<1>4. ASSUME NEW k \in Keys, flags'[k] # flags[k] PROVE \E e \in events' : e.key = k
  <2>1. k \in Written(body)
    BY <1>2, <1>4
  <2>2. Event(k, body[k]) \in events' /\ Event(k, body[k]).key = k
    BY <1>2, <2>1 DEF Event
  <2> QED BY <2>2
<1> QED BY <1>3, <1>4 DEF Told

LEMMA NextTells == ASSUME TypeOK, Next PROVE Told
<1>1. ASSUME NEW env \in Partial, Boot(env) PROVE Told
  BY <1>1 DEF Boot, Told
<1>2. ASSUME Refused PROVE Told
  BY <1>2, RefusedMeans DEF Told
<1> QED BY <1>1, <1>2, PatchTells, ReloadTells DEF Next

\* Whoever replays the change events of a step on the old flags has the new
\* ones, for any flags and any bodies.
THEOREM ChangesAreToldCorrect == Spec => ChangesAreTold
<1>1. TypeOK /\ [Next]_vars => [Told]_vars
  BY NextTells
<1> QED BY <1>1, TypeCorrect, PTL DEF Spec, ChangesAreTold, Told

=============================================================================
