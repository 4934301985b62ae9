----------------------------- MODULE ClientProofs -----------------------------
(***************************************************************************)
(* What the page keeps for any number of handlers that run at once, any    *)
(* number of gestures and chats, and whatever the server answers: composer *)
(* and chat agree, effects happen once, flags are learned, and what is on  *)
(* screen belongs to the active chat.                                      *)
(***************************************************************************)
EXTENDS Client, TLAPS

-----------------------------------------------------------------------------
(* What a handler may be *)

\* What a handler may still have to call
Todos ==
  {<<>>, <<"health">>, <<"list">>, <<"history">>, <<"create">>, <<"patch">>, <<"completion">>,
   <<"health", "list">>, <<"session", "list">>, <<"list", "history">>,
   <<"health", "session", "list">>, <<"login", "health", "list">>}

Steps == {"wait", "call", "relogin", "replay", "stream"}

IsRecord(r) ==
  r = [todo |-> r.todo, step |-> r.step, answer |-> r.answer, token |-> r.token,
       chat |-> r.chat, drawn |-> r.drawn, effects |-> r.effects]

\* r with another step, answer, token and effects
With(r, step, answer, token, effects) ==
  [todo |-> r.todo, step |-> step, answer |-> answer, token |-> token,
   chat |-> r.chat, drawn |-> r.drawn, effects |-> effects]

Bit(n) == n \in {0, 1}

\* The server has not been changed by a call that is under way or was refused.
Unharmed(r) == r.answer = NoAnswer \/ r.answer.status = "401" => r.effects = 0

\* A list holds the user's chats, and a new chat is one of them.
AnswerFits(r) ==
  /\ r.answer.status = "ok" /\ r.step \in {"call", "replay"} =>
       /\ r.todo # <<>> /\ Head(r.todo) = "list" => r.answer.body \subseteq Chats
       /\ r.todo # <<>> /\ Head(r.todo) = "create" => r.answer.body \in Chats
  /\ r.todo = <<"list", "history">> => r.chat \in Chats

HandlerOK(r) ==
  /\ IsRecord(r) /\ r.todo \in Todos /\ r.step \in Steps /\ r.drawn \in BOOLEAN
  /\ r.effects \in {0, 1} /\ Unharmed(r) /\ AnswerFits(r)
  /\ r.step = "wait" => r.answer = NoAnswer
  /\ r.step = "relogin" => r.effects = 0

HandlersOK ==
  handler = [h \in Handlers |-> handler[h]] /\ \A h \in Handlers : HandlerOK(handler[h])

ChatsOK == chats \subseteq Chats /\ list \subseteq Chats

IInv == HandlersOK /\ ChatsOK /\ ComposerHasChat

\* A step of a handler: one call, try or answer less, or a row of a stream.
Forward(r, n) ==
  r.todo # <<>> => Left(n) < Left(r) \/ n \in {r, [r EXCEPT !.drawn = TRUE]}

-----------------------------------------------------------------------------
LEMMA Tails ==
  /\ \A a : Tail(<<a>>) = <<>> /\ Len(<<a>>) = 1 /\ Head(<<a>>) = a
  /\ \A a, b : Tail(<<a, b>>) = <<b>> /\ Len(<<a, b>>) = 2 /\ Head(<<a, b>>) = a
  /\ \A a, b, c : Tail(<<a, b, c>>) = <<b, c>> /\ Len(<<a, b, c>>) = 3 /\ Head(<<a, b, c>>) = a
  /\ Len(<<>>) = 0
OBVIOUS

LEMMA PlainCalls ==
  ASSUME NEW calls, NEW n \in Nat, Len(calls) = n, Head(calls) \notin {"create", "patch"}
  PROVE  CallsLeft(calls) = n
BY DEF CallsLeft

LEMMA TodoFacts ==
  ASSUME NEW t \in Todos, t # <<>>
  PROVE  /\ Tail(t) \in Todos
         /\ CallsLeft(t) \in Nat /\ CallsLeft(Tail(t)) \in Nat
         /\ CallsLeft(Tail(t)) < CallsLeft(t) /\ CallsLeft(t) >= 1
         /\ Head(t) \in {"create", "patch"} => CallsLeft(t) = 3
         /\ Tail(t) # <<"list", "history">> /\ Tail(t) # <<"create">>
<1>1. CASE t \in {<<"health">>, <<"list">>, <<"history">>, <<"completion">>}
  <2>1. /\ Tail(t) = <<>> /\ Len(t) = 1
        /\ Head(t) \in {"health", "list", "history", "completion"}
    BY <1>1, Tails
  <2>2. CallsLeft(t) = 1
    BY <2>1, PlainCalls
  <2>3. CallsLeft(Tail(t)) = 0
    <3>1. CallsLeft(<<>>) = 0
      BY Tails DEF CallsLeft
    <3> QED BY <2>1, <3>1, Zenon
  <2>4. <<>> \in Todos
    BY DEF Todos
  <2>5. <<>> # <<"list", "history">> /\ <<>> # <<"create">>
    OBVIOUS
  <2>6. /\ CallsLeft(t) \in Nat /\ CallsLeft(Tail(t)) \in Nat
        /\ CallsLeft(Tail(t)) < CallsLeft(t) /\ CallsLeft(t) >= 1
    BY <2>2, <2>3
  <2>7. Head(t) \in {"create", "patch"} => CallsLeft(t) = 3
    BY <2>1, <2>2
  <2>8. Tail(t) \in Todos /\ Tail(t) # <<"list", "history">> /\ Tail(t) # <<"create">>
    BY <2>1, <2>4, <2>5, Zenon
  <2> QED BY <2>6, <2>7, <2>8
<1>2. CASE t \in {<<"create">>, <<"patch">>}
  <2>1. /\ Tail(t) = <<>> /\ Len(t) = 1 /\ Head(t) \in {"create", "patch"}
    BY <1>2, Tails
  <2>2. CallsLeft(t) = 1 + 2
    BY <2>1 DEF CallsLeft
  <2>3. CallsLeft(Tail(t)) = 0
    <3>1. CallsLeft(<<>>) = 0
      BY Tails DEF CallsLeft
    <3> QED BY <2>1, <3>1, Zenon
  <2>4. <<>> \in Todos
    BY DEF Todos
  <2>5. <<>> # <<"list", "history">> /\ <<>> # <<"create">>
    OBVIOUS
  <2>6. /\ CallsLeft(t) \in Nat /\ CallsLeft(Tail(t)) \in Nat
        /\ CallsLeft(Tail(t)) < CallsLeft(t) /\ CallsLeft(t) >= 1
    BY <2>2, <2>3
  <2>7. Head(t) \in {"create", "patch"} => CallsLeft(t) = 3
    BY <2>1, <2>2
  <2>8. Tail(t) \in Todos /\ Tail(t) # <<"list", "history">> /\ Tail(t) # <<"create">>
    BY <2>1, <2>4, <2>5, Zenon
  <2> QED BY <2>6, <2>7, <2>8
<1>3. CASE t = <<"health", "list">>
  <2>1. Tail(t) = <<"list">> /\ Len(t) = 2 /\ Head(t) = "health"
    BY <1>3, Tails
  <2>2. Len(<<"list">>) = 1 /\ Head(<<"list">>) = "list" /\ <<"list">> # <<>>
    BY Tails
  <2>3. CallsLeft(t) = 2 /\ CallsLeft(Tail(t)) = 1
    BY <2>1, <2>2, PlainCalls
  <2> QED BY <2>1, <2>2, <2>3 DEF Todos
<1>4. CASE t = <<"session", "list">>
  <2>1. Tail(t) = <<"list">> /\ Len(t) = 2 /\ Head(t) = "session"
    BY <1>4, Tails
  <2>2. Len(<<"list">>) = 1 /\ Head(<<"list">>) = "list" /\ <<"list">> # <<>>
    BY Tails
  <2>3. CallsLeft(t) = 2 /\ CallsLeft(Tail(t)) = 1
    BY <2>1, <2>2, PlainCalls
  <2> QED BY <2>1, <2>2, <2>3 DEF Todos
<1>5. CASE t = <<"list", "history">>
  <2>1. Tail(t) = <<"history">> /\ Len(t) = 2 /\ Head(t) = "list"
    BY <1>5, Tails
  <2>2. Len(<<"history">>) = 1 /\ Head(<<"history">>) = "history" /\ <<"history">> # <<>>
    BY Tails
  <2>3. CallsLeft(t) = 2 /\ CallsLeft(Tail(t)) = 1
    BY <2>1, <2>2, PlainCalls
  <2> QED BY <2>1, <2>2, <2>3 DEF Todos
<1>6. CASE t = <<"health", "session", "list">>
  <2>1. Tail(t) = <<"session", "list">> /\ Len(t) = 3 /\ Head(t) = "health"
    BY <1>6, Tails
  <2>2. Len(<<"session", "list">>) = 2 /\ Head(<<"session", "list">>) = "session" /\ <<"session", "list">> # <<>>
    BY Tails
  <2>3. CallsLeft(t) = 3 /\ CallsLeft(Tail(t)) = 2
    BY <2>1, <2>2, PlainCalls
  <2> QED BY <2>1, <2>2, <2>3 DEF Todos
<1>7. CASE t = <<"login", "health", "list">>
  <2>1. Tail(t) = <<"health", "list">> /\ Len(t) = 3 /\ Head(t) = "login"
    BY <1>7, Tails
  <2>2. Len(<<"health", "list">>) = 2 /\ Head(<<"health", "list">>) = "health" /\ <<"health", "list">> # <<>>
    BY Tails
  <2>3. CallsLeft(t) = 3 /\ CallsLeft(Tail(t)) = 2
    BY <2>1, <2>2, PlainCalls
  <2> QED BY <2>1, <2>2, <2>3 DEF Todos
<1> QED BY <1>1, <1>2, <1>3, <1>4, <1>5, <1>6, <1>7 DEF Todos

LEMMA CallsLeftType == ASSUME NEW calls \in Todos PROVE CallsLeft(calls) \in Nat
<1>1. CASE calls = <<>>
  BY <1>1, Tails DEF CallsLeft
<1> QED BY <1>1, TodoFacts

\* A call that begins: it is well formed, and its rank.
LEMMA FreshOK ==
  ASSUME NEW calls \in Todos, NEW token, NEW c, calls = <<"list", "history">> => c \in Chats
  PROVE  HandlerOK(Makes(calls, token, c))
<1> DEFINE n == Makes(calls, token, c)
<1>1. /\ n.todo = calls /\ n.step = "call" /\ n.answer = NoAnswer /\ n.chat = c
      /\ n.drawn = FALSE /\ n.effects = 0
  BY DEF Makes
<1>2. IsRecord(n)
  BY DEF Makes, IsRecord
<1>3. NoAnswer.status = "none"
  BY DEF NoAnswer
<1> HIDE DEF n
<1>4. HandlerOK(n)
  BY <1>1, <1>2, <1>3 DEF HandlerOK, Steps, Unharmed, AnswerFits
<1> QED BY <1>4 DEF n

LEMMA FreshRank ==
  ASSUME NEW calls \in Todos, NEW token, NEW c
  PROVE  Left(Makes(calls, token, c)) = 10 * CallsLeft(calls) + 7
<1> DEFINE n == Makes(calls, token, c)
<1>1. n.todo = calls /\ n.step = "call" /\ n.answer = NoAnswer
  BY DEF Makes
<1>2. Tries["call"] = 3
  BY DEF Tries
<1> HIDE DEF n
<1>3. Left(n) = 10 * CallsLeft(calls) + 2 * 3 + 1
  BY <1>1, <1>2 DEF Left
<1>4. Left(n) = 10 * CallsLeft(calls) + 7
  BY <1>3, CallsLeftType
<1> QED BY <1>4 DEF n

\* Ranks of a handler that is at work
LEMMA Ranks ==
  ASSUME NEW r, HandlerOK(r), r.todo # <<>>
  PROVE  /\ CallsLeft(r.todo) \in Nat /\ CallsLeft(r.todo) >= 1 /\ Left(r) \in Nat
         /\ r.step = "wait" => Left(r) >= 10 * CallsLeft(r.todo) + 8
         /\ r.step = "call" => Left(r) >= 10 * CallsLeft(r.todo) + 6
         /\ r.step = "relogin" => Left(r) >= 10 * CallsLeft(r.todo) + 4
         /\ r.step = "replay" => Left(r) >= 10 * CallsLeft(r.todo) + 2
         /\ r.step = "stream" => Left(r) >= 10 * CallsLeft(r.todo)
<1>1. CallsLeft(r.todo) \in Nat /\ CallsLeft(r.todo) >= 1 /\ r.step \in Steps
  BY TodoFacts DEF HandlerOK
<1>2. /\ Tries["wait"] = 4 /\ Tries["call"] = 3 /\ Tries["relogin"] = 2
      /\ Tries["replay"] = 1 /\ Tries["stream"] = 0
  BY DEF Tries
<1>3. PICK bit \in {0, 1} : Left(r) = 10 * CallsLeft(r.todo) + 2 * Tries[r.step] + bit
  BY DEF Left
<1>4. /\ r.step = "wait" => Tries[r.step] = 4
      /\ r.step = "call" => Tries[r.step] = 3
      /\ r.step = "relogin" => Tries[r.step] = 2
      /\ r.step = "replay" => Tries[r.step] = 1
      /\ r.step = "stream" => Tries[r.step] = 0
      /\ Tries[r.step] \in 0..4
  BY <1>1, <1>2 DEF Steps
<1> DEFINE left == CallsLeft(r.todo)
           tries == Tries[r.step]
<1> HIDE DEF left, tries
<1>5. left \in Nat /\ left >= 1 /\ tries \in 0..4 /\ Left(r) = 10 * left + 2 * tries + bit
  BY <1>1, <1>3, <1>4 DEF left, tries
<1>6. Left(r) \in Nat /\ Left(r) >= 10 * left + 2 * tries
  BY <1>5
<1> QED BY <1>1, <1>4, <1>5, <1>6 DEF left, tries

LEMMA RanksDown ==
  ASSUME NEW r, HandlerOK(r), r.todo # <<>>, NEW calls \in Todos, NEW token, NEW c,
         CallsLeft(calls) < CallsLeft(r.todo), r.step \notin {"relogin", "stream"}
  PROVE  Left(Makes(calls, token, c)) < Left(r)
<1>1. CallsLeft(calls) \in Nat /\ CallsLeft(r.todo) \in Nat
  BY CallsLeftType, Ranks
<1>2. Left(r) >= 10 * CallsLeft(r.todo) + 2 /\ Left(r) \in Nat
  BY Ranks DEF HandlerOK, Steps
<1>3. 10 * CallsLeft(calls) + 7 < 10 * CallsLeft(r.todo) + 2
  BY <1>1
<1> QED BY <1>1, <1>2, <1>3, FreshRank

-----------------------------------------------------------------------------
(* Each step moves one handler, forward *)

\* What handler h becomes in the step
Moves(h) ==
  \E n : /\ handler' = [handler EXCEPT ![h] = n]
         /\ HandlerOK(n) /\ Forward(handler[h], n)

LEMMA GoesMoves ==
  ASSUME HandlersOK, NEW h \in Handlers, NEW calls \in Todos, NEW token,
         calls # <<"list", "history">>,
         handler[h].step \notin {"relogin", "stream"},
         CallsLeft(calls) < CallsLeft(handler[h].todo), Busy(h),
         handler' = Goes(h, calls, token)
  PROVE  Moves(h)
<1> DEFINE r == handler[h]
           n == Makes(calls, token, IF calls = <<>> THEN NoChat ELSE r.chat)
<1>1. handler' = [handler EXCEPT ![h] = n]
  BY DEF Goes, HandlersOK
<1>2. HandlerOK(n)
  BY FreshOK
<1>3. HandlerOK(r) /\ r.todo # <<>>
  BY DEF HandlersOK, Busy
<1>4. Left(n) < Left(r)
  BY <1>3, RanksDown
<1> QED BY <1>1, <1>2, <1>4 DEF Moves, Forward

LEMMA ToastMoves ==
  ASSUME HandlersOK, NEW h \in Handlers, handler' = Toasts(h),
         Busy(h) => CallsLeft(handler[h].todo) = 3 /\ handler[h].step \notin {"relogin", "stream"}
  PROVE  Moves(h)
<1> DEFINE n == [Makes(<<"health">>, 0, NoChat) EXCEPT !.step = "wait"]
<1>1. handler' = [handler EXCEPT ![h] = n]
  BY DEF Toasts, HandlersOK
<1>2. /\ n.todo = <<"health">> /\ n.step = "wait" /\ n.answer = NoAnswer
      /\ n.drawn = FALSE /\ n.effects = 0
      /\ IsRecord(n)
  <2> DEFINE m == Makes(<<"health">>, 0, NoChat)
  <2>1. /\ m.todo = <<"health">> /\ m.answer = NoAnswer
        /\ m.drawn = FALSE /\ m.effects = 0
    BY DEF Makes
  <2>2. IsRecord(m)
    BY DEF Makes, IsRecord
  <2> HIDE DEF m
  <2>3. IsRecord(n) /\ n.step = "wait" /\ n.todo = m.todo /\ n.answer = m.answer
        /\ n.drawn = m.drawn /\ n.effects = m.effects
    <3>1. [m EXCEPT !.step = "wait"]
            = [todo |-> m.todo, step |-> "wait", answer |-> m.answer, token |-> m.token,
               chat |-> m.chat, drawn |-> m.drawn, effects |-> m.effects]
      BY <2>2 DEF IsRecord
    <3>2. n = [m EXCEPT !.step = "wait"]
      BY DEF m
    <3> QED BY <3>1, <3>2 DEF IsRecord
  <2> QED BY <2>1, <2>3
<1>3. NoAnswer.status = "none" /\ <<"health">> \in Todos /\ <<"health">> # <<"list", "history">>
  BY DEF NoAnswer, Todos
<1> HIDE DEF n
<1>4. HandlerOK(n)
  BY <1>2, <1>3 DEF HandlerOK, Steps, Unharmed, AnswerFits
<1>5. Left(n) = 19
  <2>1. Len(<<"health">>) = 1 /\ Head(<<"health">>) = "health" /\ Tries["wait"] = 4
    BY Tails DEF Tries
  <2>2. CallsLeft(<<"health">>) = 1
    BY <2>1, PlainCalls
  <2> QED BY <1>2, <2>1, <2>2 DEF Left
<1>6. ASSUME Busy(h) PROVE 19 < Left(handler[h])
  <2>1. HandlerOK(handler[h]) /\ handler[h].todo # <<>>
    BY <1>6 DEF HandlersOK, Busy
  <2> QED BY <1>6, <2>1, Ranks DEF HandlerOK, Steps
<1> QED BY <1>1, <1>4, <1>5, <1>6 DEF Moves, Forward, Busy

LEMMA StartsMoves ==
  ASSUME HandlersOK, NEW h \in Handlers, NEW calls \in Todos, NEW token, NEW c,
         calls # <<"list", "history">>, Starts(h, calls, token, c)
  PROVE  Moves(h)
BY FreshOK DEF Starts, Busy, Moves, Forward

LEMMA IdleMoves ==
  ASSUME HandlersOK, NEW h \in Handlers, NEW token, Busy(h), handler' = Goes(h, <<>>, token)
  PROVE  Moves(h)
<1> DEFINE r == handler[h]
           n == Makes(<<>>, token, NoChat)
<1>1. handler' = [handler EXCEPT ![h] = n]
  BY DEF Goes, HandlersOK
<1>2. <<>> \in Todos /\ <<>> # <<"list", "history">> /\ CallsLeft(<<>>) = 0
  BY Tails DEF Todos, CallsLeft
<1>3. HandlerOK(n) /\ Left(n) = 10 * 0 + 7
  BY <1>2, FreshOK, FreshRank
<1>4. HandlerOK(r) /\ r.todo # <<>>
  BY DEF HandlersOK, Busy
<1>5. Left(n) < Left(r)
  BY <1>3, <1>4, Ranks DEF HandlerOK, Steps
<1> QED BY <1>1, <1>3, <1>5 DEF Moves, Forward

\* What EXCEPT makes of a handler
LEMMA Fields ==
  ASSUME NEW r, IsRecord(r), NEW v
  PROVE  /\ [r EXCEPT !.step = v] = With(r, v, r.answer, r.token, r.effects)
         /\ [r EXCEPT !.answer = v] = With(r, r.step, v, r.token, r.effects)
         /\ [r EXCEPT !.token = v] = With(r, r.step, r.answer, v, r.effects)
         /\ [r EXCEPT !.effects = v] = With(r, r.step, r.answer, r.token, v)
<1>1. [r EXCEPT !.step = v] = With(r, v, r.answer, r.token, r.effects)
  BY DEF IsRecord, With
<1>2. [r EXCEPT !.answer = v] = With(r, r.step, v, r.token, r.effects)
  BY DEF IsRecord, With
<1>3. [r EXCEPT !.token = v] = With(r, r.step, r.answer, v, r.effects)
  BY DEF IsRecord, With
<1>4. [r EXCEPT !.effects = v] = With(r, r.step, r.answer, r.token, v)
  BY DEF IsRecord, With
<1> QED BY <1>1, <1>2, <1>3, <1>4

LEMMA OtherFields ==
  ASSUME NEW r, IsRecord(r), NEW v
  PROVE  /\ [r EXCEPT !.chat = v] =
              [todo |-> r.todo, step |-> r.step, answer |-> r.answer, token |-> r.token,
               chat |-> v, drawn |-> r.drawn, effects |-> r.effects]
         /\ [r EXCEPT !.drawn = v] =
              [todo |-> r.todo, step |-> r.step, answer |-> r.answer, token |-> r.token,
               chat |-> r.chat, drawn |-> v, effects |-> r.effects]
<1>1. [r EXCEPT !.chat = v] =
        [todo |-> r.todo, step |-> r.step, answer |-> r.answer, token |-> r.token,
         chat |-> v, drawn |-> r.drawn, effects |-> r.effects]
  BY DEF IsRecord
<1>2. [r EXCEPT !.drawn = v] =
        [todo |-> r.todo, step |-> r.step, answer |-> r.answer, token |-> r.token,
         chat |-> r.chat, drawn |-> v, effects |-> r.effects]
  BY DEF IsRecord
<1> QED BY <1>1, <1>2

LEMMA WithFields ==
  ASSUME NEW r, NEW step, NEW answer, NEW token, NEW effects
  PROVE  LET n == With(r, step, answer, token, effects)
         IN  /\ IsRecord(n) /\ n.todo = r.todo /\ n.step = step /\ n.answer = answer
             /\ n.token = token /\ n.chat = r.chat /\ n.drawn = r.drawn /\ n.effects = effects
             /\ \A s, w, k, e : With(n, s, w, k, e) = With(r, s, w, k, e)
BY DEF IsRecord, With

LEMMA TwoFields ==
  ASSUME NEW r, IsRecord(r), NEW v, NEW w
  PROVE  /\ [[r EXCEPT !.answer = v] EXCEPT !.effects = w] = With(r, r.step, v, r.token, w)
         /\ [[r EXCEPT !.step = v] EXCEPT !.answer = w] = With(r, v, w, r.token, r.effects)
<1>1. [[r EXCEPT !.answer = v] EXCEPT !.effects = w] = With(r, r.step, v, r.token, w)
  <2> DEFINE n == With(r, r.step, v, r.token, r.effects)
  <2>0. IsRecord(n)
    BY WithFields
  <2>1. [n EXCEPT !.effects = w] = With(n, n.step, n.answer, n.token, w)
    <3> HIDE DEF n
    <3> QED BY <2>0, Fields
  <2>2. With(n, n.step, n.answer, n.token, w) = With(r, r.step, v, r.token, w)
    BY WithFields
  <2>3. [r EXCEPT !.answer = v] = n
    BY Fields
  <2> QED BY <2>1, <2>2, <2>3
<1>2. [[r EXCEPT !.step = v] EXCEPT !.answer = w] = With(r, v, w, r.token, r.effects)
  <2> DEFINE n == With(r, v, r.answer, r.token, r.effects)
  <2>0. IsRecord(n)
    BY WithFields
  <2>1. [n EXCEPT !.answer = w] = With(n, n.step, w, n.token, n.effects)
    <3> HIDE DEF n
    <3> QED BY <2>0, Fields
  <2>2. With(n, n.step, w, n.token, n.effects) = With(r, v, w, r.token, r.effects)
    BY WithFields
  <2>3. [r EXCEPT !.step = v] = n
    BY Fields
  <2> QED BY <2>1, <2>2, <2>3
<1> QED BY <1>1, <1>2

LEMMA ThreeFields ==
  ASSUME NEW r, IsRecord(r), NEW v, NEW w, NEW k
  PROVE  [[[r EXCEPT !.step = v] EXCEPT !.answer = w] EXCEPT !.token = k] = With(r, v, w, k, r.effects)
<1> DEFINE n == With(r, v, w, r.token, r.effects)
<1>0. IsRecord(n)
  BY WithFields
<1>1. [n EXCEPT !.token = k] = With(n, n.step, n.answer, k, n.effects)
  <2> HIDE DEF n
  <2> QED BY <1>0, Fields
<1>2. With(n, n.step, n.answer, k, n.effects) = With(r, v, w, k, r.effects)
  BY WithFields
<1>3. [[r EXCEPT !.step = v] EXCEPT !.answer = w] = n
  BY TwoFields
<1> QED BY <1>1, <1>2, <1>3

\* A handler whose step, answer, token or effects change
LEMMA UpdateMoves ==
  ASSUME HandlersOK, NEW h \in Handlers,
         NEW step \in Steps, NEW answer, NEW token, NEW effects \in {0, 1},
         NEW n, n = With(handler[h], step, answer, token, effects),
         handler' = [handler EXCEPT ![h] = n],
         Unharmed(n), AnswerFits(n), step = "wait" => answer = NoAnswer,
         step = "relogin" => effects = 0,
         \/ Tries[step] < Tries[handler[h].step]
         \/ step = handler[h].step /\ answer # NoAnswer /\ handler[h].answer = NoAnswer
  PROVE  Moves(h)
<1> DEFINE r == handler[h]
<1>1. HandlerOK(r)
  BY DEF HandlersOK
<1>2. n.todo = r.todo /\ n.step = step /\ n.answer = answer /\ n.effects = effects /\ n.drawn = r.drawn
  BY WithFields
<1>3. IsRecord(n)
  BY WithFields
<1>4. HandlerOK(n)
  BY <1>1, <1>2, <1>3 DEF HandlerOK
<1>5. CallsLeft(r.todo) \in Nat
  BY <1>1, CallsLeftType DEF HandlerOK
<1>6. /\ Tries["wait"] = 4 /\ Tries["call"] = 3 /\ Tries["relogin"] = 2
      /\ Tries["replay"] = 1 /\ Tries["stream"] = 0
  BY DEF Tries
<1>7. Tries[step] \in Nat /\ Tries[r.step] \in Nat
  BY <1>1, <1>6 DEF HandlerOK, Steps
<1>8. /\ Left(n) = 10 * CallsLeft(r.todo) + 2 * Tries[step] + (IF answer = NoAnswer THEN 1 ELSE 0)
      /\ Left(r) = 10 * CallsLeft(r.todo) + 2 * Tries[r.step] + (IF r.answer = NoAnswer THEN 1 ELSE 0)
  BY <1>2 DEF Left
<1>9. Left(n) < Left(r)
  BY <1>5, <1>7, <1>8
<1> QED BY <1>4, <1>9 DEF Moves, Forward

-----------------------------------------------------------------------------
(* The server and jsonReq *)

LEMMA ServeMoves ==
  ASSUME HandlersOK, ChatsOK, NEW h \in Handlers, Serve(h)
  PROVE  Moves(h) /\ ChatsOK'
<1> DEFINE r == handler[h]
<1>1. HandlerOK(r) /\ Busy(h) /\ r.answer = NoAnswer /\ r.effects = 0 /\ r.step \notin {"wait", "stream"}
  BY DEF Serve, HandlersOK, HandlerOK, Unharmed
<1>2. NoAnswer.status = "none" /\ IsRecord(r)
  BY <1>1 DEF NoAnswer, HandlerOK
<1>3. ASSUME NEW answer, NEW effects, Bit(effects),
             handler' = [handler EXCEPT ![h].answer = answer, ![h].effects = effects],
             answer.status # "none", answer.status = "401" => effects = 0,
             r.step = "relogin" => effects = 0,
             answer.status = "ok" /\ r.step \in {"call", "replay"} =>
               /\ Head(r.todo) = "list" => answer.body \subseteq Chats
               /\ Head(r.todo) = "create" => answer.body \in Chats
      PROVE  Moves(h)
  <2> DEFINE n == With(r, r.step, answer, r.token, effects)
  <2>2. handler' = [handler EXCEPT ![h] = n]
    <3> DEFINE m == With(r, r.step, answer, r.token, r.effects)
    <3>1. [r EXCEPT !.answer = answer] = m
      BY <1>2, Fields
    <3>0. IsRecord(m)
      BY WithFields
    <3>2. [m EXCEPT !.effects = effects] = With(m, m.step, m.answer, m.token, effects)
      <4> HIDE DEF m
      <4> QED BY <3>0, Fields
    <3>3. With(m, m.step, m.answer, m.token, effects) = n
      BY WithFields
    <3>4. [[r EXCEPT !.answer = answer] EXCEPT !.effects = effects] = n
      BY <3>1, <3>2, <3>3
    <3> QED BY <1>3, <3>4 DEF HandlersOK
  <2>3. n.answer = answer /\ n.effects = effects /\ n.step = r.step /\ n.todo = r.todo /\ n.chat = r.chat
    BY WithFields
  <2> HIDE DEF n
  <2>4. Unharmed(n) /\ answer # NoAnswer
    BY <1>2, <1>3, <2>3 DEF Unharmed
  <2>5. AnswerFits(n)
    BY <1>1, <1>3, <2>3 DEF AnswerFits, HandlerOK
  <2>6. r.step \in Steps /\ r.step # "wait"
    BY <1>1 DEF HandlerOK
  <2>7. n = With(handler[h], r.step, answer, r.token, effects)
    BY DEF n
  <2> QED BY <1>1, <1>3, <2>2, <2>4, <2>5, <2>6, <2>7, UpdateMoves DEF Bit
<1>4. CASE UNCHANGED <<version, chats>>
           /\ handler' = [handler EXCEPT ![h].answer = [status |-> "401"]]
  <2> DEFINE answer == [status |-> "401"]
  <2>1. [r EXCEPT !.answer = answer] = [[r EXCEPT !.answer = answer] EXCEPT !.effects = 0]
    BY <1>1, <1>2, Fields, TwoFields
  <2>2. handler' = [handler EXCEPT ![h].answer = answer, ![h].effects = 0]
    BY <1>4, <2>1 DEF HandlersOK
  <2>3. answer.status = "401"
    OBVIOUS
  <2> HIDE DEF answer
  <2>4. Moves(h)
    BY <1>3, <2>2, <2>3 DEF Bit
  <2> QED BY <1>4, <2>4 DEF ChatsOK, Serve, page
<1>5. CASE UNCHANGED <<version, chats>>
           /\ handler' = [handler EXCEPT ![h].answer = [status |-> "error"]]
  <2> DEFINE answer == [status |-> "error"]
  <2>1. [r EXCEPT !.answer = answer] = [[r EXCEPT !.answer = answer] EXCEPT !.effects = 0]
    BY <1>1, <1>2, Fields, TwoFields
  <2>2. handler' = [handler EXCEPT ![h].answer = answer, ![h].effects = 0]
    BY <1>5, <2>1 DEF HandlersOK
  <2>3. answer.status = "error"
    OBVIOUS
  <2> HIDE DEF answer
  <2>4. Moves(h)
    BY <1>3, <2>2, <2>3 DEF Bit
  <2> QED BY <1>5, <2>4 DEF ChatsOK, Serve, page
<1>6. ASSUME Executed(h),
             NEW answer \in {[status |-> "ok", body |-> Body(h)], [status |-> "error"]},
             handler' = [handler EXCEPT ![h].answer = answer,
                                        ![h].effects = @ + IF Call(h) \in Changing THEN 1 ELSE 0]
      PROVE  Moves(h) /\ ChatsOK'
  <2> DEFINE effects == IF Call(h) \in Changing THEN 1 ELSE 0
  <2>1. handler' = [handler EXCEPT ![h].answer = answer, ![h].effects = effects]
    <3>1. /\ [[r EXCEPT !.answer = answer] EXCEPT !.effects = @ + effects]
               = [[r EXCEPT !.answer = answer] EXCEPT !.effects = effects]
      <4>1. [r EXCEPT !.answer = answer] = With(r, r.step, answer, r.token, r.effects)
        BY <1>2, Fields
      <4>2. [r EXCEPT !.answer = answer].effects = 0
        <5>1. With(r, r.step, answer, r.token, r.effects).effects = r.effects
          BY WithFields
        <5> QED BY <1>1, <4>1, <5>1
      <4>3. 0 + effects = effects
        OBVIOUS
      <4> QED BY <4>2, <4>3
    <3> QED BY <1>6, <3>1 DEF HandlersOK
  <2>2. chats' \subseteq Chats
    BY <1>6 DEF Executed, ChatsOK
  <2>3. ASSUME r.step \in {"call", "replay"}, Head(r.todo) = "create", answer.status = "ok"
        PROVE  answer.body \in Chats
    <3>1. Call(h) = "create"
      BY <2>3 DEF Call
    <3>2. PICK c \in Chats \ chats : chats' = chats \cup {c}
      BY <1>6, <3>1 DEF Executed
    <3>3. answer.body = CHOOSE d \in chats' : d \notin chats
      BY <1>6, <2>3, <3>1 DEF Body
    <3> QED BY <3>2, <3>3
  <2>4. ASSUME r.step \in {"call", "replay"}, Head(r.todo) = "list", answer.status = "ok"
        PROVE  answer.body \subseteq Chats
    <3>1. Call(h) = "list"
      BY <2>4 DEF Call
    <3>2. answer.body = chats
      BY <1>6, <2>4, <3>1 DEF Body
    <3> QED BY <3>2 DEF ChatsOK
  <2>5. /\ answer.status \in {"ok", "error"} /\ effects \in {0, 1}
        /\ r.step = "relogin" => effects = 0
    BY <1>6 DEF Call, Changing
  <2>6. Moves(h)
    BY <1>3, <2>1, <2>3, <2>4, <2>5 DEF Bit
  <2> QED BY <2>2, <2>6 DEF Serve, page, ChatsOK
<1> QED BY <1>4, <1>5, <1>6 DEF Serve

LEMMA ReloginMoves ==
  ASSUME HandlersOK, NEW h \in Handlers, Relogin(h)
  PROVE  Moves(h)
<1> DEFINE r == handler[h]
           n == With(r, "relogin", NoAnswer, r.token, r.effects)
<1>1. HandlerOK(r) /\ r.step = "call" /\ r.answer.status = "401"
  BY DEF HandlersOK, Relogin, NeedsLogin
<1>2. [[r EXCEPT !.step = "relogin"] EXCEPT !.answer = NoAnswer] = n
  BY <1>1, TwoFields DEF HandlerOK
<1>3. handler' = [handler EXCEPT ![h] = n]
  BY <1>2 DEF HandlersOK, Relogin
<1>4. r.effects = 0 /\ NoAnswer.status = "none"
  BY <1>1 DEF HandlerOK, Unharmed, NoAnswer
<1>5. n.todo = r.todo /\ n.answer = NoAnswer /\ n.effects = 0 /\ n.chat = r.chat
  BY <1>4, WithFields
<1> HIDE DEF n
<1>6. Unharmed(n) /\ AnswerFits(n)
  BY <1>1, <1>4, <1>5 DEF HandlerOK, Unharmed, AnswerFits
<1>7. Tries["relogin"] < Tries[r.step] /\ "relogin" \in Steps /\ "relogin" # "wait"
  BY <1>1 DEF Tries, Steps
<1>8. n = With(handler[h], "relogin", NoAnswer, r.token, r.effects)
  BY DEF n
<1> QED BY <1>3, <1>4, <1>6, <1>7, <1>8, UpdateMoves

LEMMA ReplayMoves ==
  ASSUME HandlersOK, NEW h \in Handlers, Replay(h)
  PROVE  Moves(h)
<1> DEFINE r == handler[h]
           token == IF jwt' # 0 /\ Head(r.todo) \in NeedToken THEN jwt' ELSE r.token
           n == With(r, "replay", NoAnswer, token, r.effects)
<1>1. HandlerOK(r) /\ IsRecord(r) /\ r.step = "relogin" /\ r.effects = 0
  BY DEF HandlersOK, HandlerOK, Replay
<1>2. [[[r EXCEPT !.step = "replay"] EXCEPT !.answer = NoAnswer] EXCEPT !.token = token] = n
  BY <1>1, ThreeFields
<1>3. [[r EXCEPT !.step = "replay"] EXCEPT !.answer = NoAnswer].token = r.token
  <2>1. [[r EXCEPT !.step = "replay"] EXCEPT !.answer = NoAnswer]
          = With(r, "replay", NoAnswer, r.token, r.effects)
    BY <1>1, TwoFields
  <2> QED BY <2>1, WithFields
<1>4. handler' = [handler EXCEPT ![h] = n]
  BY <1>2, <1>3 DEF HandlersOK, Replay
<1>5. NoAnswer.status = "none"
  BY DEF NoAnswer
<1>6. n.todo = r.todo /\ n.answer = NoAnswer /\ n.effects = 0 /\ n.chat = r.chat
  BY <1>1, WithFields
<1> HIDE DEF n
<1>7. Unharmed(n) /\ AnswerFits(n)
  BY <1>1, <1>5, <1>6 DEF HandlerOK, Unharmed, AnswerFits
<1>8. Tries["replay"] < Tries[r.step] /\ "replay" \in Steps /\ "replay" # "wait"
  BY <1>1 DEF Tries, Steps
<1>9. n = With(handler[h], "replay", NoAnswer, token, r.effects)
  BY DEF n
<1> HIDE DEF token
<1> QED BY <1>1, <1>4, <1>7, <1>8, <1>9, UpdateMoves

LEMMA TimerMoves ==
  ASSUME HandlersOK, NEW h \in Handlers, Timer(h)
  PROVE  Moves(h)
<1> DEFINE r == handler[h]
           n == With(r, "call", r.answer, r.token, r.effects)
<1>1. HandlerOK(r) /\ r.step = "wait" /\ r.answer = NoAnswer
  BY DEF HandlersOK, HandlerOK, Timer
<1>2. handler' = [handler EXCEPT ![h] = n]
  BY <1>1, Fields DEF HandlersOK, HandlerOK, Timer
<1>3. NoAnswer.status = "none" /\ r.effects \in {0, 1}
  BY <1>1 DEF NoAnswer, HandlerOK
<1>4. n.todo = r.todo /\ n.answer = NoAnswer /\ n.effects = r.effects /\ n.chat = r.chat
  BY <1>1, WithFields
<1> HIDE DEF n
<1>5. Unharmed(n) /\ AnswerFits(n)
  BY <1>1, <1>3, <1>4 DEF HandlerOK, Unharmed, AnswerFits
<1>6. Tries["call"] < Tries[r.step] /\ "call" \in Steps /\ "call" # "wait" /\ "call" # "relogin"
  BY <1>1 DEF Tries, Steps
<1>7. n = With(handler[h], "call", r.answer, r.token, r.effects)
  BY DEF n
<1> QED BY <1>2, <1>3, <1>5, <1>6, <1>7, UpdateMoves

-----------------------------------------------------------------------------
(* What the handlers do with their answers *)

LEMMA ReturnsFacts ==
  ASSUME HandlersOK, NEW h \in Handlers, NEW call, Returns(h, call)
  PROVE  /\ HandlerOK(handler[h]) /\ Busy(h) /\ handler[h].todo \in Todos \ {<<>>}
         /\ handler[h].step \in {"call", "replay"} /\ Head(handler[h].todo) = call
BY DEF HandlersOK, HandlerOK, Returns, Answered, Busy, Steps

LEMMA TailMoves ==
  ASSUME HandlersOK, NEW h \in Handlers, NEW call, Returns(h, call), NEW token,
         handler' = Goes(h, Tail(handler[h].todo), token)
  PROVE  Moves(h)
BY ReturnsFacts, TodoFacts, GoesMoves

LEMMA LoggedInMoves ==
  ASSUME HandlersOK, ChatsOK, NEW h \in Handlers, LoggedIn(h)
  PROVE  Moves(h) /\ ChatsOK'
<1>1. PICK call \in {"login", "session"} : Returns(h, call)
  BY DEF LoggedIn
<1>2. handler' = Goes(h, <<>>, jwt') \/ handler' = Goes(h, Tail(handler[h].todo), jwt')
  BY DEF LoggedIn
<1>3. Moves(h)
  BY <1>1, <1>2, ReturnsFacts, TailMoves, IdleMoves
<1> QED BY <1>3 DEF LoggedIn, MayLoad, ChatsOK, server

LEMMA ProbedMoves ==
  ASSUME HandlersOK, ChatsOK, NEW h \in Handlers, Probed(h)
  PROVE  Moves(h) /\ ChatsOK'
<1>1. Returns(h, "health")
  BY DEF Probed
<1>2. \/ handler' = Goes(h, Tail(handler[h].todo), jwt)
      \/ Tail(handler[h].todo) # <<>> /\ handler' = Goes(h, Tail(Tail(handler[h].todo)), jwt)
  BY DEF Probed
<1>3. ASSUME handler' = Goes(h, Tail(handler[h].todo), jwt)
      PROVE  Moves(h)
  BY <1>1, <1>3, TailMoves
<1>4. ASSUME Tail(handler[h].todo) # <<>>, handler' = Goes(h, Tail(Tail(handler[h].todo)), jwt)
      PROVE  Moves(h)
  <2>1. handler[h].todo \in Todos \ {<<>>} /\ Busy(h) /\ handler[h].step \notin {"relogin", "stream"}
    BY <1>1, ReturnsFacts
  <2>2. Tail(handler[h].todo) \in Todos /\ CallsLeft(Tail(handler[h].todo)) < CallsLeft(handler[h].todo)
        /\ CallsLeft(Tail(handler[h].todo)) \in Nat /\ CallsLeft(handler[h].todo) \in Nat
    BY <2>1, TodoFacts
  <2>3. /\ Tail(Tail(handler[h].todo)) \in Todos /\ Tail(Tail(handler[h].todo)) # <<"list", "history">>
        /\ CallsLeft(Tail(Tail(handler[h].todo))) < CallsLeft(Tail(handler[h].todo))
        /\ CallsLeft(Tail(Tail(handler[h].todo))) \in Nat
    BY <1>4, <2>2, TodoFacts
  <2>4. CallsLeft(Tail(Tail(handler[h].todo))) < CallsLeft(handler[h].todo)
    BY <2>2, <2>3
  <2> QED BY <1>4, <2>1, <2>3, <2>4, GoesMoves
<1>5. Moves(h)
  BY <1>2, <1>3, <1>4
<1> QED BY <1>5 DEF Probed, MayLoad, ChatsOK, server

LEMMA PatchedMoves ==
  ASSUME HandlersOK, ChatsOK, NEW h \in Handlers, Patched(h)
  PROVE  Moves(h) /\ ChatsOK'
<1>1. Returns(h, "patch") /\ handler' = Toasts(h)
  BY DEF Patched
<1>2. CallsLeft(handler[h].todo) = 3 /\ handler[h].step \notin {"relogin", "stream"}
  BY <1>1, ReturnsFacts, TodoFacts
<1>3. Moves(h)
  BY <1>1, <1>2, ToastMoves
<1> QED BY <1>3 DEF Patched, ChatsOK, server, page

LEMMA CreatedMoves ==
  ASSUME HandlersOK, ChatsOK, NEW h \in Handlers, Created(h)
  PROVE  Moves(h) /\ ChatsOK'
<1> DEFINE r == handler[h]
           calls == <<"list", "history">>
           n == Makes(calls, jwt, r.answer.body)
<1>1. Returns(h, "create")
  BY DEF Created
<1>2. /\ HandlerOK(r) /\ r.todo # <<>> /\ r.step \in {"call", "replay"}
      /\ Head(r.todo) = "create" /\ CallsLeft(r.todo) = 3
  BY <1>1, ReturnsFacts, TodoFacts
<1>3. CASE ~Ok(h)
  <2>1. handler' = Toasts(h) /\ UNCHANGED list
    BY <1>3 DEF Created
  <2>2. Moves(h)
    BY <1>2, <2>1, ToastMoves
  <2> QED BY <2>1, <2>2 DEF Created, ChatsOK, server
<1>4. CASE Ok(h)
  <2>1. r.answer.body \in Chats
    BY <1>2, <1>4 DEF Ok, HandlerOK, AnswerFits
  <2>2. [Makes(calls, jwt, r.chat) EXCEPT !.chat = r.answer.body] = n
    <3> DEFINE m == Makes(calls, jwt, r.chat)
               token == IF calls # <<>> /\ Head(calls) \in NeedToken THEN jwt ELSE 0
    <3> HIDE DEF calls, token
    <3>1. /\ m = [todo |-> calls, step |-> "call", answer |-> NoAnswer, token |-> token,
                  chat |-> r.chat, drawn |-> FALSE, effects |-> 0]
          /\ n = [todo |-> calls, step |-> "call", answer |-> NoAnswer, token |-> token,
                  chat |-> r.answer.body, drawn |-> FALSE, effects |-> 0]
      BY DEF Makes, token
    <3> HIDE DEF m, n
    <3>2. IsRecord(m)
      BY <3>1 DEF IsRecord
    <3>3. [m EXCEPT !.chat = r.answer.body] =
            [todo |-> m.todo, step |-> m.step, answer |-> m.answer, token |-> m.token,
             chat |-> r.answer.body, drawn |-> m.drawn, effects |-> m.effects]
      BY <3>2, OtherFields
    <3>4. [m EXCEPT !.chat = r.answer.body] = n
      BY <3>1, <3>3
    <3> QED BY <3>4 DEF m
  <2>3. handler' = [handler EXCEPT ![h] = n] /\ list' = {}
    BY <1>4, <2>2 DEF Created, Goes, HandlersOK
  <2>4. calls \in Todos /\ HandlerOK(n)
    <3>1. calls \in Todos
      BY DEF Todos
    <3> QED BY <2>1, <3>1, FreshOK
  <2>5. CallsLeft(calls) = 2
    <3>1. Len(calls) = 2 /\ Head(calls) = "list"
      BY Tails
    <3> HIDE DEF calls
    <3> QED BY <3>1, PlainCalls
  <2>6. Left(n) < Left(r)
    BY <1>2, <2>4, <2>5, RanksDown
  <2>7. Moves(h)
    BY <2>3, <2>4, <2>6 DEF Moves, Forward
  <2> QED BY <2>3, <2>7 DEF Created, ChatsOK, server
<1> QED BY <1>3, <1>4

LEMMA LoadedMoves ==
  ASSUME HandlersOK, ChatsOK, NEW h \in Handlers, Loaded(h)
  PROVE  Moves(h) /\ ChatsOK'
<1>1. Returns(h, "list") /\ handler' = Goes(h, Tail(handler[h].todo), jwt)
  BY DEF Loaded
<1>2. Moves(h)
  BY <1>1, TailMoves
<1>3. list' \subseteq Chats
  BY <1>1, ReturnsFacts DEF Loaded, HandlerOK, AnswerFits, Ok
<1> QED BY <1>2, <1>3 DEF Loaded, ChatsOK, server

LEMMA HistoryLoadedMoves ==
  ASSUME HandlersOK, ChatsOK, NEW h \in Handlers, HistoryLoaded(h)
  PROVE  Moves(h) /\ ChatsOK'
<1>1. Busy(h) /\ handler' = Goes(h, <<>>, jwt)
  BY DEF HistoryLoaded, Returns, Answered
<1> QED BY <1>1, IdleMoves DEF HistoryLoaded, ChatsOK, server

LEMMA CompletedMoves ==
  ASSUME HandlersOK, ChatsOK, NEW h \in Handlers, Completed(h)
  PROVE  Moves(h) /\ ChatsOK'
<1> DEFINE r == handler[h]
           n == With(r, "stream", r.answer, r.token, r.effects)
<1>1. Returns(h, "completion") /\ UNCHANGED <<chats, list>>
  BY DEF Completed, server
<1>2. HandlerOK(r) /\ Busy(h) /\ r.step \in {"call", "replay"} /\ Head(r.todo) = "completion"
  BY <1>1, ReturnsFacts
<1>3. CASE handler' = Goes(h, <<>>, jwt)
  BY <1>1, <1>2, <1>3, IdleMoves DEF ChatsOK
<1>4. CASE handler' = [handler EXCEPT ![h].step = "stream"]
  <2>1. handler' = [handler EXCEPT ![h] = n]
    BY <1>2, <1>4, Fields DEF HandlersOK, HandlerOK
  <2>2. n.todo = r.todo /\ n.answer = r.answer /\ n.effects = r.effects /\ n.chat = r.chat /\ n.step = "stream"
    BY WithFields
  <2> HIDE DEF n
  <2>3. Unharmed(n) /\ AnswerFits(n) /\ r.effects \in {0, 1}
    BY <1>2, <2>2 DEF HandlerOK, Unharmed, AnswerFits
  <2>4. Tries["stream"] < Tries[r.step] /\ "stream" \in Steps /\ "stream" # "wait" /\ "stream" # "relogin"
    BY <1>2 DEF Tries, Steps
  <2>5. n = With(handler[h], "stream", r.answer, r.token, r.effects)
    BY DEF n
  <2>6. Moves(h)
    BY <2>1, <2>3, <2>4, <2>5, UpdateMoves
  <2> QED BY <1>1, <2>6 DEF ChatsOK
<1> QED BY <1>3, <1>4 DEF Completed

LEMMA FrameMoves ==
  ASSUME HandlersOK, ChatsOK, NEW h \in Handlers, Frame(h)
  PROVE  Moves(h) /\ ChatsOK'
<1> DEFINE r == handler[h]
<1>1. PICK token \in BOOLEAN : handler' = [handler EXCEPT ![h].drawn = @ \/ token]
  BY DEF Frame
<1>2. HandlerOK(r) /\ UNCHANGED <<chats, list>>
  BY DEF HandlersOK, Frame, server
<1>3. CASE ~token
  <2>1. [r EXCEPT !.drawn = @ \/ token] = r
    BY <1>2, <1>3 DEF HandlerOK, IsRecord
  <2>2. handler' = [handler EXCEPT ![h] = r]
    BY <1>1, <2>1 DEF HandlersOK
  <2> QED BY <1>2, <2>2 DEF Moves, Forward, ChatsOK
<1>4. CASE token
  <2> DEFINE n == [r EXCEPT !.drawn = TRUE]
  <2>1. [r EXCEPT !.drawn = @ \/ token] = n
    BY <1>2, <1>4 DEF HandlerOK, IsRecord
  <2>2. handler' = [handler EXCEPT ![h] = n]
    BY <1>1, <2>1 DEF HandlersOK
  <2>3. IsRecord(n) /\ n.todo = r.todo /\ n.step = r.step /\ n.answer = r.answer
        /\ n.effects = r.effects /\ n.chat = r.chat /\ n.drawn = TRUE
    <3>1. IsRecord(r)
      BY <1>2 DEF HandlerOK
    <3>2. n = [todo |-> r.todo, step |-> r.step, answer |-> r.answer, token |-> r.token,
               chat |-> r.chat, drawn |-> TRUE, effects |-> r.effects]
      BY <3>1, OtherFields
    <3> QED BY <3>2 DEF IsRecord
  <2> HIDE DEF n
  <2>4. HandlerOK(n)
    BY <1>2, <2>3 DEF HandlerOK, Unharmed, AnswerFits
  <2> QED BY <1>2, <2>2, <2>4 DEF Moves, Forward, ChatsOK, n
<1> QED BY <1>3, <1>4

LEMMA EndStreamMoves ==
  ASSUME HandlersOK, ChatsOK, NEW h \in Handlers, EndStream(h)
  PROVE  Moves(h) /\ ChatsOK'
<1>1. Busy(h) /\ handler' = Goes(h, <<>>, jwt)
  BY DEF EndStream, Streams
<1> QED BY <1>1, IdleMoves DEF EndStream, ChatsOK, server, page

-----------------------------------------------------------------------------
LEMMA GestureMoves ==
  ASSUME HandlersOK, ChatsOK, NEW h \in Handlers, Gesture(h)
  PROVE  Moves(h) /\ ChatsOK'
<1>1. /\ <<"login", "health", "list">> \in Todos /\ <<"list">> \in Todos /\ <<"create">> \in Todos
      /\ <<"history">> \in Todos /\ <<"completion">> \in Todos /\ <<"patch">> \in Todos
  BY DEF Todos
<1>2. ASSUME Connect(h) PROVE Moves(h) /\ ChatsOK'
  <2>1. <<"login", "health", "list">> # <<"list", "history">>
    OBVIOUS
  <2>2. Moves(h)
    BY <1>1, <1>2, <2>1, StartsMoves DEF Connect
  <2> QED BY <1>2, <2>2 DEF Connect, ChatsOK, server, page
<1>3. ASSUME NEW call \in {"list", "create", "history", "completion", "patch"}, NEW token, NEW c,
             Starts(h, <<call>>, token, c)
      PROVE  Moves(h)
  <2>1. <<call>> \in Todos /\ <<call>> # <<"list", "history">>
    BY <1>1
  <2> QED BY <1>3, <2>1, StartsMoves
<1>4. ASSUME RefreshChats(h) PROVE Moves(h) /\ ChatsOK'
  BY <1>3, <1>4 DEF RefreshChats, ChatsOK, server
<1>5. ASSUME NewChat(h) \/ PatchFlag(h) PROVE Moves(h) /\ ChatsOK'
  BY <1>3, <1>5 DEF NewChat, PatchFlag, ChatsOK, server, page
<1>6. ASSUME NEW c \in list, PickChat(h, c) PROVE Moves(h) /\ ChatsOK'
  BY <1>3, <1>6 DEF PickChat, ChatsOK, server
<1>7. ASSUME Submit(h) PROVE Moves(h) /\ ChatsOK'
  <2>1. CASE active = NoChat
    BY <1>7, <2>1, ToastMoves DEF Submit, ChatsOK, server
  <2>2. CASE active # NoChat
    BY <1>3, <1>7, <2>2 DEF Submit, ChatsOK, server
  <2> QED BY <2>1, <2>2
<1> QED BY <1>2, <1>4, <1>5, <1>6, <1>7 DEF Gesture

\* Every step that moves a handler moves one of them, forward.
LEMMA NextMoves ==
  ASSUME HandlersOK, ChatsOK, [Next]_vars
  PROVE  ChatsOK' /\ ((\E h \in Handlers : Moves(h)) \/ UNCHANGED handler)
<1>1. ASSUME NEW h \in Handlers, Runs(h) \/ Serve(h) \/ Frame(h) \/ EndStream(h)
      PROVE  Moves(h) /\ ChatsOK'
  <2>1. ASSUME Relogin(h) \/ Replay(h) \/ Timer(h) PROVE Moves(h) /\ ChatsOK'
    <3>1. Moves(h)
      BY <2>1, ReloginMoves, ReplayMoves, TimerMoves
    <3> QED BY <2>1, <3>1 DEF Relogin, Replay, Timer, ChatsOK, server, page
  <2> QED
    BY <1>1, <2>1, ServeMoves, LoggedInMoves, ProbedMoves, PatchedMoves, CreatedMoves, LoadedMoves,
       HistoryLoadedMoves, CompletedMoves, FrameMoves, EndStreamMoves
       DEF Runs
<1>2. CASE Restart \/ UNCHANGED vars
  BY <1>2 DEF Restart, vars, ChatsOK, server, page
<1> QED BY <1>1, <1>2, GestureMoves DEF Next

LEMMA HandlersStep ==
  ASSUME HandlersOK, NEW h \in Handlers, Moves(h) PROVE HandlersOK'
BY DEF HandlersOK, Moves

-----------------------------------------------------------------------------
(* The composer: a selection and the end of loadChats move chat and view *)

LEMMA HistoryLast ==
  ASSUME NEW t \in Todos, t # <<>>, Tail(t) = <<"history">> PROVE t = <<"list", "history">>
<1>1. \A a : Tail(<<a>>) # <<"history">>
  BY Tails
<1>2. \A a, b : Tail(<<a, b>>) = <<"history">> => b = "history"
  BY Tails
<1>3. \A a, b, c : Tail(<<a, b, c>>) # <<"history">>
  BY Tails
<1> QED BY <1>1, <1>2, <1>3 DEF Todos

LEMMA ComposerStep ==
  ASSUME IInv, [Next]_vars PROVE ComposerHasChat'
<1>1. ASSUME UNCHANGED <<active, view>> PROVE ComposerHasChat'
  BY <1>1 DEF IInv, ComposerHasChat
<1>2. ASSUME NEW h \in Handlers, NEW c \in Chats, SelectChat(h, c) PROVE ComposerHasChat'
  BY <1>2, ChatAssumption DEF SelectChat, ComposerHasChat
<1>3. ASSUME NEW h \in Handlers, Loaded(h) PROVE ComposerHasChat'
  <2>1. CASE Tail(handler[h].todo) = <<"history">>
    <3>1. HandlerOK(handler[h]) /\ handler[h].todo \in Todos \ {<<>>}
      BY <1>3, ReturnsFacts DEF Loaded, IInv
    <3>2. handler[h].chat \in Chats
      BY <2>1, <3>1, HistoryLast DEF HandlerOK, AnswerFits
    <3> QED BY <1>2, <1>3, <2>1, <3>2 DEF Loaded
  <2>2. CASE Tail(handler[h].todo) # <<"history">>
    BY <1>3, <2>2 DEF Loaded, Listed, IInv, ComposerHasChat
  <2> QED BY <2>1, <2>2
<1>4. ASSUME NEW h \in Handlers, NEW c \in list, PickChat(h, c) PROVE ComposerHasChat'
  BY <1>2, <1>4 DEF PickChat, IInv, ChatsOK
<1>5. ASSUME NEW h \in Handlers,
             \/ Relogin(h) \/ Replay(h) \/ LoggedIn(h) \/ Probed(h) \/ Patched(h) \/ Created(h)
             \/ HistoryLoaded(h) \/ Completed(h) \/ Timer(h)
             \/ Serve(h) \/ Frame(h) \/ EndStream(h)
             \/ Connect(h) \/ RefreshChats(h) \/ NewChat(h) \/ Submit(h) \/ PatchFlag(h)
      PROVE  ComposerHasChat'
  <2>1. UNCHANGED <<active, view>>
    BY <1>5 DEF Relogin, Replay, LoggedIn, Probed, Patched, Created, HistoryLoaded, Completed,
                Timer, Serve, Frame, EndStream, Connect, RefreshChats, NewChat, Submit,
                PatchFlag, page
  <2> QED BY <1>1, <2>1
<1>6. CASE Restart \/ UNCHANGED vars
  BY <1>1, <1>6 DEF Restart, vars, page
<1> QED BY <1>3, <1>4, <1>5, <1>6 DEF Next, Runs, Gesture

-----------------------------------------------------------------------------
LEMMA InitIInv == Init => IInv
<1> SUFFICES ASSUME Init PROVE IInv
  OBVIOUS
<1>1. <<"health", "session", "list">> \in Todos /\ <<>> \in Todos
      /\ <<"health", "session", "list">> # <<"list", "history">> /\ <<>> # <<"list", "history">>
  BY DEF Todos
<1>2. HandlerOK(Makes(<<"health", "session", "list">>, 0, NoChat)) /\ HandlerOK(Idle)
  BY <1>1, FreshOK DEF Idle
<1>3. HandlersOK
  BY <1>2 DEF Init, HandlersOK
<1>4. ChatsOK /\ ComposerHasChat
  BY DEF Init, ChatsOK, ComposerHasChat
<1> QED BY <1>3, <1>4 DEF IInv

LEMMA IInvCorrect == Spec => []IInv
<1>1. ASSUME IInv, [Next]_vars PROVE IInv'
  <2>1. ComposerHasChat'
    BY <1>1, ComposerStep
  <2>2. ChatsOK' /\ ((\E h \in Handlers : Moves(h)) \/ UNCHANGED handler)
    BY <1>1, NextMoves DEF IInv
  <2>3. HandlersOK'
    BY <1>1, <2>2, HandlersStep DEF IInv, HandlersOK
  <2> QED BY <2>1, <2>2, <2>3 DEF IInv
<1> QED BY <1>1, InitIInv, PTL DEF Spec

\* The composer is on screen exactly when a prompt would go to a chat.
THEOREM ComposerHasChatCorrect == Spec => []ComposerHasChat
<1>1. IInv => ComposerHasChat
  BY DEF IInv
<1> QED BY <1>1, IInvCorrect, PTL

\* One gesture changes the server at most once, however often it is replayed.
THEOREM EffectsOnceCorrect == Spec => []EffectsOnce
<1>1. IInv => EffectsOnce
  BY DEF IInv, HandlersOK, HandlerOK, EffectsOnce
<1> QED BY <1>1, IInvCorrect, PTL

\* No handler ever goes back: there is no login loop.
THEOREM AdvancesCorrect == Spec => Advances
<1>1. ASSUME IInv, [Next]_vars, NEW h \in Handlers, Busy(h)
      PROVE  \/ Left(handler'[h]) < Left(handler[h])
             \/ handler'[h] \in {handler[h], [handler[h] EXCEPT !.drawn = TRUE]}
  <2>1. (\E o \in Handlers : Moves(o)) \/ UNCHANGED handler
    BY <1>1, NextMoves DEF IInv
  <2>2. ASSUME NEW o \in Handlers, Moves(o)
        PROVE  \/ Left(handler'[h]) < Left(handler[h])
               \/ handler'[h] \in {handler[h], [handler[h] EXCEPT !.drawn = TRUE]}
    <3>1. PICK n : handler' = [handler EXCEPT ![o] = n] /\ Forward(handler[o], n)
      BY <2>2 DEF Moves
    <3>2. CASE o = h
      <4>1. handler'[h] = n
        BY <3>1, <3>2, <1>1 DEF IInv, HandlersOK
      <4> QED BY <1>1, <3>1, <3>2, <4>1 DEF Forward, Busy
    <3>3. CASE o # h
      BY <3>1, <3>3, <1>1 DEF IInv, HandlersOK
    <3> QED BY <3>2, <3>3
  <2> QED BY <2>1, <2>2
<1>2. IInv /\ [Next]_vars =>
        [\A h \in Handlers :
           Busy(h) => \/ Left(handler'[h]) < Left(handler[h])
                      \/ handler'[h] \in {handler[h], [handler[h] EXCEPT !.drawn = TRUE]}]_vars
  BY <1>1
<1> QED BY <1>2, IInvCorrect, PTL DEF Spec, Advances

-----------------------------------------------------------------------------
(***************************************************************************)
(* The screen and the flags.  IInv says what each handler may be; what     *)
(* follows relates the handlers to what is shown, so it needs what every   *)
(* action leaves in the fields of its handler.                             *)
(***************************************************************************)

Only(h) == \A o \in Handlers \ {h} : handler'[o] = handler[o]

\* What a handler with these calls to make is waiting for, and what comes next
LEMMA HeadFacts ==
  ASSUME NEW t \in Todos, t # <<>>
  PROVE  /\ Head(t) = "login" => Tail(t) # <<>> /\ Head(Tail(t)) = "health"
         /\ Head(t) = "session" => Tail(t) # <<>> /\ Head(Tail(t)) = "list"
         /\ Head(t) = "health" /\ Tail(t) # <<>> =>
              \/ Head(Tail(t)) = "list"
              \/ Head(Tail(t)) = "session" /\ Tail(Tail(t)) # <<>> /\ Head(Tail(Tail(t))) = "list"
         /\ Head(t) = "list" => Tail(t) = <<>> \/ Tail(t) = <<"history">>
         /\ Head(t) \in {"history", "create", "patch", "completion"} => Tail(t) = <<>>
<1>1. CASE t \in {<<"health">>, <<"list">>, <<"history">>, <<"create">>, <<"patch">>, <<"completion">>}
  <2>1. Tail(t) = <<>> /\ Head(t) \notin {"login", "session"}
    BY <1>1, Tails
  <2> QED BY <2>1
<1>2. CASE t = <<"health", "list">>
  BY <1>2, Tails
<1>3. CASE t = <<"session", "list">>
  BY <1>3, Tails
<1>4. CASE t = <<"list", "history">>
  BY <1>4, Tails
<1>5. CASE t = <<"health", "session", "list">>
  BY <1>5, Tails
<1>6. CASE t = <<"login", "health", "list">>
  BY <1>6, Tails
<1> QED BY <1>1, <1>2, <1>3, <1>4, <1>5, <1>6 DEF Todos

LEMMA ProbesInTodo ==
  ASSUME NEW t \in Todos, t # <<>>, Head(t) \in {"patch", "login", "health"}
  PROVE  \E i \in DOMAIN t : t[i] \in {"health", "patch"}
<1>1. CASE Head(t) \in {"patch", "health"}
  <2>1. 1 \in DOMAIN t /\ t[1] = Head(t)
    BY DEF Todos
  <2> QED BY <1>1, <2>1
<1>2. CASE Head(t) = "login"
  <2>1. t = <<"login", "health", "list">>
    BY <1>2 DEF Todos
  <2>2. 2 \in DOMAIN t /\ t[2] = "health"
    BY <2>1
  <2> QED BY <2>2
<1> QED BY <1>1, <1>2

LEMMA GoesFields ==
  ASSUME HandlersOK, NEW h \in Handlers, NEW calls, NEW token, handler' = Goes(h, calls, token)
  PROVE  /\ Only(h)
         /\ handler'[h].todo = calls /\ handler'[h].step = "call"
         /\ handler'[h].answer = NoAnswer
         /\ calls # <<>> => handler'[h].chat = handler[h].chat
BY DEF HandlersOK, Goes, Makes, Only

LEMMA ToastFields ==
  ASSUME HandlersOK, NEW h \in Handlers, handler' = Toasts(h)
  PROVE  /\ Only(h)
         /\ handler'[h].todo = <<"health">> /\ handler'[h].step = "wait"
         /\ handler'[h].answer = NoAnswer
BY DEF HandlersOK, Toasts, Makes, Only

LEMMA StartsFields ==
  ASSUME HandlersOK, NEW h \in Handlers, NEW calls, NEW token, NEW c, Starts(h, calls, token, c)
  PROVE  /\ Only(h) /\ ~Busy(h)
         /\ handler'[h].todo = calls /\ handler'[h].step = "call"
         /\ handler'[h].answer = NoAnswer /\ handler'[h].chat = c
BY DEF HandlersOK, Starts, Makes, Only

LEMMA CreatedFields ==
  ASSUME HandlersOK, NEW h \in Handlers, Created(h), Ok(h)
  PROVE  /\ Only(h)
         /\ handler'[h].todo = <<"list", "history">> /\ handler'[h].step = "call"
         /\ handler'[h].answer = NoAnswer
<1> DEFINE calls == <<"list", "history">>
           m == Goes(h, calls, jwt)
<1>1. handler' = [m EXCEPT ![h].chat = handler[h].answer.body]
  BY DEF Created
<1>2. \A o \in Handlers \ {h} : m[o] = handler[o]
  BY DEF Goes, HandlersOK
<1> HIDE DEF calls
<1>3. /\ m[h].todo = calls /\ m[h].answer = NoAnswer /\ m[h].step = "call"
      /\ m = [o \in Handlers |-> m[o]] /\ IsRecord(m[h])
  BY DEF Goes, HandlersOK, Makes, IsRecord
<1> HIDE DEF m
<1>4. Only(h) /\ handler'[h].todo = calls /\ handler'[h].answer = NoAnswer
      /\ handler'[h].step = "call"
  BY <1>1, <1>2, <1>3 DEF Only, IsRecord
<1> QED BY <1>4 DEF calls

\* A try of the call that is under way
Stays(h) == Only(h) /\ handler'[h].todo = handler[h].todo /\ handler'[h].chat = handler[h].chat

LEMMA StaysFields ==
  ASSUME HandlersOK, NEW h \in Handlers
  PROVE  /\ Relogin(h) => Stays(h) /\ handler'[h].step = "relogin" /\ handler'[h].answer = NoAnswer
         /\ Replay(h) => Stays(h) /\ handler'[h].step = "replay" /\ handler'[h].answer = NoAnswer
         /\ Timer(h) => /\ Stays(h) /\ handler'[h].step = "call"
                        /\ handler'[h].answer = handler[h].answer
         /\ Frame(h) => /\ Stays(h) /\ handler'[h].step = handler[h].step
                        /\ handler'[h].answer = handler[h].answer
<1>1. handler = [o \in Handlers |-> handler[o]] /\ IsRecord(handler[h])
  BY DEF HandlersOK, HandlerOK
<1>2. Relogin(h) => Stays(h) /\ handler'[h].step = "relogin" /\ handler'[h].answer = NoAnswer
  BY <1>1 DEF Relogin, Stays, Only, IsRecord
<1>3. Replay(h) => Stays(h) /\ handler'[h].step = "replay" /\ handler'[h].answer = NoAnswer
  BY <1>1 DEF Replay, Stays, Only, IsRecord
<1>4. Timer(h) => /\ Stays(h) /\ handler'[h].step = "call"
                  /\ handler'[h].answer = handler[h].answer
  BY <1>1 DEF Timer, Stays, Only, IsRecord
<1>5. Frame(h) => /\ Stays(h) /\ handler'[h].step = handler[h].step
                  /\ handler'[h].answer = handler[h].answer
  BY <1>1 DEF Frame, Stays, Only, IsRecord
<1> QED BY <1>2, <1>3, <1>4, <1>5

\* The three ways a call is answered
Answers(h) ==
  \/ /\ handler'[h].answer.status = "401"
     /\ Refused(h) \/ Call(h) = "patch"
     /\ UNCHANGED <<version, chats>>
  \/ /\ Executed(h)
     /\ handler'[h].answer = [status |-> "ok", body |-> Body(h)]
  \/ /\ handler'[h].answer.status = "error"
     /\ (UNCHANGED <<version, chats>> \/ Executed(h))

LEMMA ServeFields ==
  ASSUME HandlersOK, NEW h \in Handlers, Serve(h)
  PROVE  Stays(h) /\ handler'[h].step = handler[h].step /\ Answers(h)
<1>1. handler = [o \in Handlers |-> handler[o]] /\ IsRecord(handler[h])
  BY DEF HandlersOK, HandlerOK
<1>2. ASSUME NEW answer, handler' = [handler EXCEPT ![h].answer = answer]
      PROVE  /\ Stays(h) /\ handler'[h].step = handler[h].step
             /\ handler'[h].answer = answer
  BY <1>1, <1>2 DEF Stays, Only, IsRecord
<1>3. ASSUME NEW answer, NEW by,
             handler' = [handler EXCEPT ![h].answer = answer, ![h].effects = @ + by]
      PROVE  /\ Stays(h) /\ handler'[h].step = handler[h].step
             /\ handler'[h].answer = answer
  BY <1>1, <1>3 DEF Stays, Only, IsRecord
<1>4. CASE /\ Refused(h) \/ Call(h) = "patch"
           /\ UNCHANGED <<version, chats>>
           /\ handler' = [handler EXCEPT ![h].answer = [status |-> "401"]]
  BY <1>2, <1>4 DEF Answers
<1>5. CASE /\ UNCHANGED <<version, chats>>
           /\ handler' = [handler EXCEPT ![h].answer = [status |-> "error"]]
  BY <1>2, <1>5 DEF Answers
<1>6. ASSUME Executed(h),
             NEW answer \in {[status |-> "ok", body |-> Body(h)], [status |-> "error"]},
             handler' = [handler EXCEPT ![h].answer = answer,
                                        ![h].effects = @ + IF Call(h) \in Changing THEN 1 ELSE 0]
      PROVE  Stays(h) /\ handler'[h].step = handler[h].step /\ Answers(h)
  <2>1. /\ Stays(h) /\ handler'[h].step = handler[h].step
        /\ handler'[h].answer = answer
    BY <1>3, <1>6
  <2>2. answer = [status |-> "ok", body |-> Body(h)] \/ answer.status = "error"
    BY <1>6
  <2> QED BY <1>6, <2>1, <2>2 DEF Answers
<1> QED BY <1>4, <1>5, <1>6 DEF Serve

-----------------------------------------------------------------------------
(***************************************************************************)
(* The flags.  A page that does not know the latest flags has a handler    *)
(* that will tell it: one with a change or a login still to do, which a    *)
(* probe follows, or with a probe that is not answered yet or was answered *)
(* with the flags of now.  Otherwise the last probe got no answer.         *)
(***************************************************************************)

Teaches(r, v) ==
  /\ r.todo # <<>>
  /\ \/ Head(r.todo) \in {"patch", "login"}
     \/ /\ Head(r.todo) = "health"
        /\ r.answer = NoAnswer \/ (r.answer.status = "ok" /\ r.answer.body = v)

\* Only answers to prompts are streams.
Streaming(r) == r.todo # <<>> /\ r.step = "stream" => Head(r.todo) = "completion"

\* A probe is never refused or replayed.
Probing(r) ==
  r.todo # <<>> /\ Head(r.todo) = "health" =>
    r.step \in {"wait", "call"} /\ r.answer.status # "401"

\* No answer is ahead of the server.
Told(r, v) ==
  /\ r.todo # <<>> /\ Head(r.todo) \in {"health", "patch"}
  /\ r.step \in {"call", "replay"} /\ r.answer.status = "ok"
  => r.answer.body \in 0..v

Truthful(r, v) == Streaming(r) /\ Probing(r) /\ Told(r, v)

Numbers == version \in Nat /\ learned \in Nat /\ learned <= version

FInv ==
  /\ Numbers
  /\ \A h \in Handlers : Truthful(handler[h], version)
  /\ ~deaf => learned = version \/ \E h \in Handlers : Teaches(handler[h], version)

LEMMA NoStatus == NoAnswer.status = "none"
BY DEF NoAnswer

LEMMA InitFInv == Init => FInv
<1> SUFFICES ASSUME Init PROVE FInv
  OBVIOUS
<1>1. Numbers
  BY DEF Init, Numbers
<1>2. \A h \in Handlers : handler[h].step = "call" /\ handler[h].answer = NoAnswer
  BY DEF Init, Idle, Makes
<1>3. ASSUME NEW h \in Handlers PROVE Truthful(handler[h], version)
  <2>1. handler[h].step = "call" /\ handler[h].answer.status = "none"
    BY <1>2, NoStatus
  <2>2. Streaming(handler[h])
    BY <2>1 DEF Streaming
  <2>3. Probing(handler[h])
    BY <2>1 DEF Probing
  <2>4. Told(handler[h], version)
    BY <2>1 DEF Told
  <2> QED BY <2>2, <2>3, <2>4 DEF Truthful
<1>4. PICK opening \in Handlers : handler[opening].todo = <<"health", "session", "list">>
  BY DEF Init, Makes
<1>5. Teaches(handler[opening], version)
  <2>1. Head(<<"health", "session", "list">>) = "health" /\ <<"health", "session", "list">> # <<>>
    BY Tails
  <2> QED BY <1>2, <1>4, <2>1 DEF Teaches
<1> QED BY <1>1, <1>3, <1>5 DEF FInv

\* A step that changes no flag keeps what the other handlers know.
LEMMA FInvByOne ==
  ASSUME FInv, NEW h \in Handlers, Only(h), version' = version, deaf' = deaf,
         Numbers', learned' >= learned,
         Truthful(handler'[h], version),
         Teaches(handler[h], version) => learned' = version \/ Teaches(handler'[h], version)
  PROVE  FInv'
<1>1. \A o \in Handlers : Truthful(handler'[o], version')
  BY DEF FInv, Only
<1>2. ASSUME ~deaf', learned' # version'
      PROVE  \E o \in Handlers : Teaches(handler'[o], version')
  <2>1. learned # version
    BY <1>2 DEF FInv, Numbers
  <2>2. PICK o \in Handlers : Teaches(handler[o], version)
    BY <1>2, <2>1 DEF FInv
  <2>3. CASE o = h
    BY <1>2, <2>2, <2>3
  <2>4. CASE o # h
    BY <2>2, <2>4 DEF Only
  <2> QED BY <2>3, <2>4
<1> QED BY <1>1, <1>2 DEF FInv

LEMMA ServeFInv ==
  ASSUME IInv, FInv, NEW h \in Handlers, Serve(h)
  PROVE  FInv'
<1> DEFINE r == handler[h]
           n == handler'[h]
<1>1. /\ Only(h) /\ n.todo = r.todo /\ n.step = r.step /\ Answers(h)
      /\ HandlerOK(r) /\ r.todo # <<>> /\ r.step \in {"call", "relogin", "replay"}
      /\ r.answer = NoAnswer
  BY ServeFields DEF IInv, HandlersOK, HandlerOK, Stays, Serve, Busy, Steps
<1>2. Truthful(r, version) /\ version \in Nat /\ learned \in Nat /\ learned <= version
  BY DEF FInv, Numbers
<1>3. learned' = learned
  BY DEF Serve, shown
<1>4. Head(r.todo) = "health" => Call(h) = "health"
  BY <1>1, <1>2 DEF Truthful, Probing, Call
<1>5. Call(h) = "health" => Head(r.todo) = "health" /\ r.step \in {"call", "replay"}
  BY <1>1 DEF Call
<1>6. deaf' = IF Call(h) = "health" THEN n.answer.status # "ok" ELSE deaf
  BY DEF Serve
<1>7. version' \in {version, version + 1} /\ (version' # version => Call(h) = "patch")
  BY DEF Answers, Executed, Serve
<1>8. Call(h) = "patch" => Head(r.todo) = "patch"
  BY <1>1 DEF Call
<1>9. n.answer.status = "401" => Call(h) # "health"
  <2>1. [status |-> "ok", body |-> Body(h)].status = "ok"
    OBVIOUS
  <2> QED BY <1>1, <2>1 DEF Answers, Refused, NeedToken
<1>10. ASSUME n.answer.status = "ok", Call(h) \in {"health", "patch"}
       PROVE  n.answer.body = version'
  <2>1. n.answer = [status |-> "ok", body |-> Body(h)]
    BY <1>1, <1>10 DEF Answers
  <2>2. Body(h) = version'
    BY <1>10 DEF Body, OfFlags
  <2> QED BY <2>1, <2>2
<1>11. Truthful(n, version')
  <2>1. ASSUME Head(r.todo) = "health" PROVE n.step \in {"wait", "call"} /\ n.answer.status # "401"
    BY <1>1, <1>2, <1>4, <1>9, <2>1 DEF Truthful, Probing
  <2>2. ASSUME Head(r.todo) \in {"health", "patch"}, n.step \in {"call", "replay"}
        PROVE  Call(h) \in {"health", "patch"}
    BY <1>1, <2>2 DEF Call
  <2>3. Streaming(n)
    BY <1>1 DEF Streaming
  <2>4. Probing(n)
    BY <1>1, <2>1 DEF Probing
  <2>5. Told(n, version')
    BY <1>1, <1>2, <1>7, <1>10, <2>2 DEF Told
  <2> QED BY <2>3, <2>4, <2>5 DEF Truthful
<1>12. \A o \in Handlers : Truthful(handler'[o], version')
  <2>1. ASSUME NEW o \in Handlers, o # h PROVE Truthful(handler'[o], version')
    <3>1. handler'[o] = handler[o] /\ Truthful(handler[o], version)
      BY <1>1, <2>1 DEF Only, FInv
    <3>2. Told(handler[o], version) => Told(handler[o], version')
      BY <1>2, <1>7 DEF Told
    <3> QED BY <3>1, <3>2 DEF Truthful
  <2> QED BY <1>11, <2>1
<1>13. Numbers'
  BY <1>2, <1>3, <1>7 DEF Numbers
<1>14. ASSUME ~deaf' PROVE learned' = version' \/ \E o \in Handlers : Teaches(handler'[o], version')
  <2>1. CASE Call(h) \in {"health", "patch"}
    <3>1. Teaches(n, version')
      BY <1>1, <1>5, <1>6, <1>8, <1>10, <1>14, <2>1 DEF Teaches
    <3> QED BY <3>1
  <2>2. CASE Call(h) \notin {"health", "patch"}
    <3>1. version' = version /\ ~deaf
      BY <1>6, <1>7, <1>14, <2>2
    <3>2. CASE learned = version
      BY <1>3, <3>1, <3>2
    <3>3. ASSUME NEW o \in Handlers, Teaches(handler[o], version)
          PROVE  Teaches(handler'[o], version')
      <4>1. CASE o = h
        BY <1>1, <1>4, <2>2, <3>3, <4>1 DEF Teaches
      <4>2. CASE o # h
        BY <1>1, <3>1, <3>3, <4>2 DEF Only
      <4> QED BY <4>1, <4>2
    <3> QED BY <3>1, <3>2, <3>3 DEF FInv
  <2> QED BY <2>1, <2>2
<1> QED BY <1>12, <1>13, <1>14 DEF FInv

LEMMA FreshIsTruthful ==
  ASSUME NEW r, NEW v, r.answer = NoAnswer, r.step \in {"call", "wait"}
  PROVE  Truthful(r, v)
<1>1. r.answer.status = "none"
  BY NoStatus
<1>2. Streaming(r)
  BY DEF Streaming
<1>3. Probing(r)
  BY <1>1 DEF Probing
<1>4. Told(r, v)
  BY <1>1 DEF Told
<1> QED BY <1>2, <1>3, <1>4 DEF Truthful

\* The answer of a probe or of a change of flags is taken over.
LEMMA TaughtFInv ==
  ASSUME IInv, FInv, NEW h \in Handlers, Probed(h) \/ Patched(h)
  PROVE  FInv'
<1> DEFINE r == handler[h]
           n == handler'[h]
<1>1. PICK call \in {"health", "patch"} :
        /\ Returns(h, call)
        /\ (call = "health" /\ Probed(h)) \/ (call = "patch" /\ Patched(h))
  BY DEF Probed, Patched
<1>2. /\ HandlerOK(r) /\ r.todo # <<>> /\ r.step \in {"call", "replay"}
      /\ Head(r.todo) = call /\ r.answer # NoAnswer
  BY <1>1, ReturnsFacts DEF IInv, Returns, Answered
<1>3. version' = version /\ deaf' = deaf
  BY DEF Probed, Patched, server
<1>4. Truthful(r, version) /\ version \in Nat /\ learned \in Nat /\ learned <= version
  BY DEF FInv, Numbers
<1>5. \/ ~Ok(h) /\ learned' = learned
      \/ Ok(h) /\ learned' = Later(learned, r.answer.body)
  BY DEF Probed, Patched, Shows
<1>6. Ok(h) => r.answer.body \in Nat /\ r.answer.body <= version
  BY <1>2, <1>4 DEF Truthful, Told, Ok
<1>7. Numbers' /\ learned' >= learned /\ (Ok(h) => learned' >= r.answer.body)
  BY <1>3, <1>4, <1>5, <1>6 DEF Numbers, Later
<1>8. Only(h) /\ n.answer = NoAnswer /\ n.step \in {"call", "wait"}
  <2>1. CASE call = "health"
    <3>1. PICK calls : handler' = Goes(h, calls, jwt)
      BY <1>1, <2>1 DEF Probed
    <3> QED BY <3>1, GoesFields DEF IInv
  <2>2. CASE call = "patch"
    BY <1>1, <2>2, ToastFields DEF Patched, IInv
  <2> QED BY <2>1, <2>2
<1>9. ASSUME Teaches(r, version) PROVE learned' = version \/ Teaches(n, version)
  <2>1. CASE call = "health"
    <3>1. Ok(h) /\ r.answer.body = version
      BY <1>2, <1>9, <2>1 DEF Teaches, Ok
    <3> QED BY <1>3, <1>7, <3>1 DEF Numbers
  <2>2. CASE call = "patch"
    <3>1. n.todo = <<"health">>
      BY <1>1, <2>2, ToastFields DEF Patched, IInv
    <3>2. <<"health">> # <<>> /\ Head(<<"health">>) = "health"
      BY Tails
    <3> QED BY <1>8, <3>1, <3>2 DEF Teaches
  <2> QED BY <2>1, <2>2
<1>10. Truthful(n, version)
  BY <1>8, FreshIsTruthful
<1> QED BY <1>3, <1>7, <1>8, <1>9, <1>10, FInvByOne

LEMMA LoggedInFInv ==
  ASSUME IInv, FInv, NEW h \in Handlers, LoggedIn(h)
  PROVE  FInv'
<1> DEFINE r == handler[h]
           n == handler'[h]
<1>1. PICK call \in {"login", "session"} : Returns(h, call)
  BY DEF LoggedIn
<1>2. r.todo \in Todos /\ r.todo # <<>> /\ r.step \in {"call", "replay"} /\ Head(r.todo) = call
  BY <1>1, ReturnsFacts DEF IInv
<1>3. version' = version /\ deaf' = deaf /\ learned' = learned
  BY DEF LoggedIn, server, shown
<1>4. handler' = Goes(h, <<>>, jwt') \/ handler' = Goes(h, Tail(r.todo), jwt')
  BY DEF LoggedIn
<1>5. call = "login" => handler' = Goes(h, Tail(r.todo), jwt')
  BY <1>2 DEF LoggedIn, Call
<1>6. Only(h) /\ n.answer = NoAnswer /\ n.step = "call"
      /\ (call = "login" => n.todo = Tail(r.todo))
  BY <1>4, <1>5, GoesFields DEF IInv
<1>7. Truthful(n, version)
  BY <1>6, FreshIsTruthful
<1>8. Teaches(r, version) => Teaches(n, version)
  <2>1. CASE call = "login"
    BY <1>2, <1>6, <2>1, HeadFacts DEF Teaches
  <2>2. CASE call = "session"
    BY <1>2, <2>2 DEF Teaches
  <2> QED BY <2>1, <2>2
<1>9. Numbers' /\ learned' >= learned
  BY <1>3 DEF FInv, Numbers
<1> QED BY <1>3, <1>6, <1>7, <1>8, <1>9, FInvByOne

\* Handlers that wait for something else tell the page nothing of the flags.
LEMMA OthersFInv ==
  ASSUME IInv, FInv, NEW h \in Handlers,
         \/ Created(h) \/ Loaded(h) \/ HistoryLoaded(h) \/ Completed(h) \/ EndStream(h) \/ Gesture(h)
  PROVE  FInv'
<1> DEFINE r == handler[h]
           n == handler'[h]
<1> USE DEF IInv
<1>0. UNCHANGED <<version, deaf, learned>>
  BY DEF Created, Loaded, HistoryLoaded, Completed, EndStream, Gesture, Connect, RefreshChats,
         NewChat, Submit, PatchFlag, PickChat, server, shown
<1>1. HandlerOK(r) /\ Numbers /\ Truthful(r, version)
  BY DEF HandlersOK, FInv
<1>2. Numbers' /\ learned' >= learned /\ version' = version /\ deaf' = deaf
  BY <1>0, <1>1 DEF Numbers
<1>3. ASSUME Only(h), n.answer = NoAnswer, n.step \in {"call", "wait"}, ~Teaches(r, version)
      PROVE  FInv'
  BY <1>2, <1>3, FreshIsTruthful, FInvByOne
<1>4. ASSUME NEW call \in {"create", "list", "history", "completion"}, Returns(h, call)
      PROVE  ~Teaches(r, version)
  BY <1>4, ReturnsFacts DEF Teaches
<1>5. ~Busy(h) => ~Teaches(r, version)
  BY DEF Busy, Teaches
<1>6. CASE Created(h)
  <2>1. CASE Ok(h)
    BY <1>3, <1>4, <1>6, <2>1, CreatedFields DEF Created
  <2>2. CASE ~Ok(h)
    BY <1>3, <1>4, <1>6, <2>2, ToastFields DEF Created
  <2> QED BY <2>1, <2>2
<1>7. CASE Loaded(h)
  BY <1>3, <1>4, <1>7, GoesFields DEF Loaded
<1>8. CASE HistoryLoaded(h)
  BY <1>3, <1>4, <1>8, GoesFields DEF HistoryLoaded
<1>9. CASE Completed(h) /\ handler' = Goes(h, <<>>, jwt)
  BY <1>3, <1>4, <1>9, GoesFields DEF Completed
<1>10. CASE Completed(h) /\ handler' = [handler EXCEPT ![h].step = "stream"]
  <2>1. Head(r.todo) = "completion" /\ Returns(h, "completion")
    BY <1>10, ReturnsFacts DEF Completed
  <2>2. Only(h) /\ n.todo = r.todo
    BY <1>1, <1>10 DEF HandlersOK, HandlerOK, IsRecord, Only
  <2>3. Streaming(n) /\ Probing(n) /\ Told(n, version)
    BY <2>1, <2>2 DEF Streaming, Probing, Told
  <2>4. Truthful(n, version)
    BY <2>3 DEF Truthful
  <2> QED BY <1>2, <1>4, <2>1, <2>2, <2>4, FInvByOne
<1>11. CASE EndStream(h)
  <2>1. ~Teaches(r, version)
    BY <1>1, <1>11 DEF EndStream, Streams, Busy, Truthful, Streaming, Teaches
  <2> QED BY <1>3, <1>11, <2>1, GoesFields DEF EndStream
<1>12. CASE Gesture(h)
  <2>1. CASE Submit(h) /\ active = NoChat
    BY <1>3, <1>5, <1>12, <2>1, ToastFields DEF Submit
  <2>2. CASE \E calls, token, c : Starts(h, calls, token, c)
    BY <1>3, <1>5, <2>2, StartsFields
  <2>3. (Submit(h) /\ active = NoChat) \/ \E calls, token, c : Starts(h, calls, token, c)
    BY <1>12 DEF Gesture, Connect, RefreshChats, NewChat, Submit, PatchFlag, PickChat
  <2> QED BY <2>1, <2>2, <2>3
<1> QED BY <1>6, <1>7, <1>8, <1>9, <1>10, <1>11, <1>12 DEF Completed

LEMMA TriesFInv ==
  ASSUME IInv, FInv, NEW h \in Handlers, Relogin(h) \/ Replay(h) \/ Timer(h) \/ Frame(h)
  PROVE  FInv'
<1> DEFINE r == handler[h]
           n == handler'[h]
<1>0. HandlersOK /\ HandlerOK(r) /\ Truthful(r, version) /\ Numbers
  BY DEF IInv, HandlersOK, FInv
<1>1. UNCHANGED <<version, deaf, learned>>
  BY DEF Relogin, Replay, Timer, Frame, server, shown
<1>2. Only(h) /\ n.todo = r.todo /\ r.todo # <<>>
  BY <1>0, StaysFields DEF Stays, Relogin, Replay, Timer, Frame, Answered, Streams, Busy
<1>3. Truthful(n, version) /\ (Teaches(r, version) => Teaches(n, version))
  <2>1. CASE Relogin(h)
    <3>1. r.step = "call" /\ r.answer.status = "401" /\ n.step = "relogin" /\ n.answer = NoAnswer
      BY <1>0, <2>1, StaysFields DEF Relogin, NeedsLogin
    <3>2. Head(r.todo) # "health"
      BY <1>0, <1>2, <3>1 DEF Truthful, Probing
    <3>3. Streaming(n) /\ Probing(n) /\ Told(n, version)
      BY <1>2, <3>1, <3>2 DEF Streaming, Probing, Told
    <3>4. Teaches(r, version) => Teaches(n, version)
      BY <1>2, <3>2 DEF Teaches
    <3> QED BY <3>3, <3>4 DEF Truthful
  <2>2. CASE Replay(h)
    <3>1. r.step = "relogin" /\ n.step = "replay" /\ n.answer = NoAnswer
      BY <1>0, <2>2, StaysFields DEF Replay
    <3>2. Head(r.todo) # "health" /\ n.answer.status = "none"
      BY <1>0, <1>2, <3>1, NoStatus DEF Truthful, Probing
    <3>3. Streaming(n) /\ Probing(n) /\ Told(n, version)
      BY <1>2, <3>1, <3>2 DEF Streaming, Probing, Told
    <3>4. Teaches(r, version) => Teaches(n, version)
      BY <1>2, <3>2 DEF Teaches
    <3> QED BY <3>3, <3>4 DEF Truthful
  <2>3. CASE Timer(h)
    <3>1. n.step = "call" /\ n.answer = r.answer /\ r.answer = NoAnswer
      BY <1>0, <2>3, StaysFields DEF Timer, HandlerOK
    <3> QED BY <1>2, <3>1, FreshIsTruthful DEF Teaches
  <2>4. CASE Frame(h)
    <3>1. n.step = r.step /\ n.answer = r.answer
      BY <1>0, <2>4, StaysFields
    <3>2. Truthful(n, version)
      BY <1>0, <1>2, <3>1 DEF Truthful, Streaming, Probing, Told
    <3> QED BY <1>2, <3>1, <3>2 DEF Teaches
  <2> QED BY <2>1, <2>2, <2>3, <2>4
<1>4. Numbers' /\ learned' >= learned /\ version' = version /\ deaf' = deaf
  BY <1>0, <1>1 DEF Numbers
<1> QED BY <1>2, <1>3, <1>4, FInvByOne

LEMMA FInvStep == IInv /\ FInv /\ [Next]_vars => FInv'
<1> SUFFICES ASSUME IInv, FInv, [Next]_vars PROVE FInv'
  OBVIOUS
<1>1. ASSUME NEW h \in Handlers, Runs(h) \/ Serve(h) \/ Frame(h) \/ EndStream(h) \/ Gesture(h)
      PROVE  FInv'
  BY <1>1, ServeFInv, TaughtFInv, LoggedInFInv, OthersFInv, TriesFInv DEF Runs
<1>2. CASE Restart
  <2>1. version' = version + 1 /\ deaf' /\ UNCHANGED <<learned, handler>>
    BY <1>2 DEF Restart, shown
  <2>2. version \in Nat /\ learned \in Nat /\ learned <= version
    BY DEF FInv, Numbers
  <2>3. Numbers'
    BY <2>1, <2>2 DEF Numbers
  <2>4. ASSUME NEW h \in Handlers PROVE Truthful(handler[h], version')
    <3>1. Truthful(handler[h], version)
      BY DEF FInv
    <3>2. Told(handler[h], version) => Told(handler[h], version')
      BY <2>1, <2>2 DEF Told
    <3> QED BY <3>1, <3>2 DEF Truthful
  <2> QED BY <2>1, <2>3, <2>4 DEF FInv
<1>3. CASE UNCHANGED vars
  <2>1. UNCHANGED <<version, deaf, learned, handler>>
    BY <1>3 DEF vars, server, shown
  <2> QED BY <2>1 DEF FInv, Numbers
<1> QED BY <1>1, <1>2, <1>3 DEF Next

LEMMA FInvCorrect == Spec => [](IInv /\ FInv)
BY InitFInv, FInvStep, IInvCorrect, PTL DEF Spec

-----------------------------------------------------------------------------
(***************************************************************************)
(* The flags on screen.  Unless older flags were on their way when the     *)
(* page was last answered, all that are on their way are the same and no   *)
(* older than what the page was told, and it shows that when there are     *)
(* none.                                                                   *)
(***************************************************************************)

SInv ==
  ~raced =>
    /\ \A h \in Handlers : BringsFlags(h) =>
         /\ handler[h].answer.body >= learned
         /\ \A o \in Handlers : BringsFlags(o) => handler[o].answer.body = handler[h].answer.body
    /\ (\A h \in Handlers : ~BringsFlags(h)) => flags = learned

LEMMA InitSInv == Init => SInv
<1>1. Init => \A h \in Handlers : handler[h].answer = NoAnswer
  BY DEF Init, Idle, Makes
<1>2. Init => flags = learned
  BY DEF Init
<1> QED BY <1>1, <1>2, NoStatus DEF SInv, BringsFlags

\* A handler that brings no flags, before and after
LEMMA NothingBrought ==
  ASSUME SInv, NEW h \in Handlers, Only(h), ~BringsFlags(h), ~BringsFlags(h)',
         UNCHANGED <<raced, flags, learned>>
  PROVE  SInv'
<1>1. ASSUME NEW o \in Handlers, BringsFlags(o)'
      PROVE  BringsFlags(o) /\ handler'[o] = handler[o]
  <2>1. handler'[o] = handler[o]
    BY <1>1 DEF Only
  <2> QED BY <1>1, <2>1 DEF BringsFlags, Busy, Call
<1>2. ASSUME NEW o \in Handlers, BringsFlags(o)
      PROVE  BringsFlags(o)'
  <2>1. handler'[o] = handler[o]
    BY <1>2 DEF Only
  <2> QED BY <1>2, <2>1 DEF BringsFlags, Busy, Call
<1> QED BY <1>1, <1>2 DEF SInv

LEMMA ServeSInv ==
  ASSUME IInv, FInv, SInv, NEW h \in Handlers, Serve(h)
  PROVE  SInv'
<1> DEFINE r == handler[h]
           n == handler'[h]
<1>1. /\ Only(h) /\ n.todo = r.todo /\ n.step = r.step /\ Answers(h)
      /\ r.answer.status = "none"
  BY ServeFields, NoStatus DEF IInv, Stays, Serve
<1>2. UNCHANGED <<flags, learned>>
  BY DEF Serve, shown
<1>3. ~BringsFlags(h)
  BY <1>1 DEF BringsFlags
<1>4. raced' = IF BringsFlags(h)'
                 THEN \E o \in Handlers : BringsFlags(o) /\ handler[o].answer.body # version'
                 ELSE raced
  BY DEF Serve
<1>5. CASE ~BringsFlags(h)'
  BY <1>1, <1>2, <1>3, <1>4, <1>5, NothingBrought
<1>6. CASE BringsFlags(h)'
  <2>1. n.answer.status = "ok" /\ Call(h)' \in OfFlags
    BY <1>6 DEF BringsFlags
  <2>2. Call(h)' = Call(h)
    BY <1>1 DEF Call
  <2>3. n.answer = [status |-> "ok", body |-> Body(h)]
    BY <1>1, <2>1 DEF Answers
  <2>4. n.answer.body = version'
    BY <2>1, <2>2, <2>3 DEF Body, OfFlags
  <2>5. learned' <= version'
    BY ServeFInv DEF FInv, Numbers
  <2>6. version' \in Nat /\ learned' \in Nat
    BY ServeFInv DEF FInv, Numbers
  <2>7. ASSUME ~raced', NEW o \in Handlers, BringsFlags(o)'
        PROVE  handler'[o].answer.body = version'
    <3>1. CASE o = h
      BY <2>4, <3>1
    <3>2. CASE o # h
      <4>1. handler'[o] = handler[o]
        BY <1>1, <3>2 DEF Only
      <4>2. BringsFlags(o)
        BY <2>7, <4>1 DEF BringsFlags, Busy, Call
      <4> QED BY <1>4, <1>6, <2>7, <4>1, <4>2
    <3> QED BY <3>1, <3>2
  <2> QED BY <1>6, <2>5, <2>6, <2>7 DEF SInv
<1> QED BY <1>5, <1>6

\* Flags arrive.
LEMMA ShownSInv ==
  ASSUME IInv, FInv, SInv, NEW h \in Handlers, Probed(h) \/ Patched(h)
  PROVE  SInv'
<1> DEFINE r == handler[h]
           n == handler'[h]
<1>1. PICK call \in OfFlags :
        /\ Returns(h, call)
        /\ (call = "health" /\ Probed(h)) \/ (call = "patch" /\ Patched(h))
  BY DEF Probed, Patched, OfFlags
<1>2. /\ r.todo # <<>> /\ r.step \in {"call", "replay"} /\ Head(r.todo) = call
  BY <1>1, ReturnsFacts DEF IInv
<1>3. raced' = raced
  BY DEF Probed, Patched, server
<1>4. \/ ~Ok(h) /\ UNCHANGED <<flags, learned>>
      \/ Ok(h) /\ flags' = r.answer.body /\ learned' = Later(learned, r.answer.body)
  BY DEF Probed, Patched, Shows
<1>5. Only(h) /\ n.answer = NoAnswer
  <2>1. CASE call = "health"
    <3>1. PICK calls : handler' = Goes(h, calls, jwt)
      BY <1>1, <2>1 DEF Probed
    <3> QED BY <3>1, GoesFields DEF IInv
  <2>2. CASE call = "patch"
    BY <1>1, <2>2, ToastFields DEF Patched, IInv
  <2> QED BY <1>1, <2>1, <2>2 DEF OfFlags
<1>6. ~BringsFlags(h)'
  BY <1>5, NoStatus DEF BringsFlags
<1>7. CASE ~Ok(h)
  <2>1. ~BringsFlags(h)
    BY <1>7 DEF BringsFlags, Ok
  <2> QED BY <1>3, <1>4, <1>5, <1>6, <1>7, <2>1, NothingBrought
<1>8. CASE Ok(h)
  <2>1. BringsFlags(h)
    BY <1>1, <1>2, <1>8 DEF BringsFlags, Busy, Call, Ok
  <2>2. learned \in Nat /\ r.answer.body \in Nat
    BY <1>1, <1>2, <1>8 DEF FInv, Numbers, Truthful, Told, Ok, OfFlags
  <2>3. ASSUME ~raced PROVE SInv'
    <3>1. r.answer.body >= learned
      BY <2>1, <2>3 DEF SInv
    <3>2. flags' = r.answer.body /\ learned' = r.answer.body
      BY <1>4, <1>8, <2>2, <3>1 DEF Later
    <3>3. ASSUME NEW o \in Handlers, BringsFlags(o)'
          PROVE  handler'[o].answer.body = r.answer.body
      <4>1. handler'[o] = handler[o]
        BY <1>5, <1>6, <3>3 DEF Only
      <4>2. BringsFlags(o)
        BY <3>3, <4>1 DEF BringsFlags, Busy, Call
      <4> QED BY <2>1, <2>3, <4>1, <4>2 DEF SInv
    <3> QED BY <2>2, <3>2, <3>3 DEF SInv
  <2> QED BY <1>3, <2>3 DEF SInv
<1> QED BY <1>7, <1>8

LEMMA RestSInv ==
  ASSUME IInv, FInv, SInv, NEW h \in Handlers,
         \/ Relogin(h) \/ Replay(h) \/ LoggedIn(h) \/ Created(h) \/ Loaded(h) \/ HistoryLoaded(h)
         \/ Completed(h) \/ Timer(h) \/ Frame(h) \/ EndStream(h) \/ Gesture(h)
  PROVE  SInv'
<1> DEFINE r == handler[h]
           n == handler'[h]
<1> USE DEF IInv
<1>1. UNCHANGED <<raced, flags, learned>>
  BY DEF Relogin, Replay, LoggedIn, Created, Loaded, HistoryLoaded, Completed, Timer, Frame,
         EndStream, Gesture, Connect, RefreshChats, NewChat, Submit, PatchFlag, PickChat,
         server, shown
<1>2. HandlersOK /\ HandlerOK(r) /\ Streaming(r)
  BY DEF HandlersOK, FInv, Truthful
<1>3. ASSUME NEW call \in {"login", "session", "create", "list", "history", "completion"},
             Returns(h, call)
      PROVE  ~BringsFlags(h)
  BY <1>2, <1>3, ReturnsFacts DEF BringsFlags, Call, OfFlags
<1>4. n.answer = NoAnswer => ~BringsFlags(h)'
  BY NoStatus DEF BringsFlags
<1>5. ASSUME Only(h), n.answer = NoAnswer, ~BringsFlags(h) PROVE SInv'
  BY <1>1, <1>4, <1>5, NothingBrought
<1>6. CASE Relogin(h)
  BY <1>2, <1>5, <1>6, StaysFields DEF Stays, Relogin, NeedsLogin, BringsFlags
<1>7. CASE Replay(h)
  BY <1>2, <1>5, <1>7, StaysFields DEF Stays, Replay, BringsFlags, Call, OfFlags
<1>8. CASE LoggedIn(h)
  <2>1. PICK calls : handler' = Goes(h, calls, jwt')
    BY <1>8 DEF LoggedIn
  <2>2. Only(h) /\ n.answer = NoAnswer
    BY <1>2, <2>1, GoesFields
  <2> QED BY <1>3, <1>5, <1>8, <2>2 DEF LoggedIn
<1>9. CASE Created(h)
  <2>1. Only(h) /\ n.answer = NoAnswer
    <3>1. CASE Ok(h)
      BY <1>2, <1>9, <3>1, CreatedFields
    <3>2. CASE ~Ok(h)
      BY <1>2, <1>9, <3>2, ToastFields DEF Created
    <3> QED BY <3>1, <3>2
  <2> QED BY <1>3, <1>5, <1>9, <2>1 DEF Created
<1>10. CASE Loaded(h)
  BY <1>2, <1>3, <1>5, <1>10, GoesFields DEF Loaded
<1>11. CASE HistoryLoaded(h)
  BY <1>2, <1>3, <1>5, <1>11, GoesFields DEF HistoryLoaded
<1>12. CASE Completed(h) /\ handler' = Goes(h, <<>>, jwt)
  BY <1>2, <1>3, <1>5, <1>12, GoesFields DEF Completed
<1>13. ASSUME r.todo # <<>>, Head(r.todo) = "completion", Only(h), n.todo = r.todo,
              r.step # "relogin"
       PROVE  SInv'
  <2>1. ~BringsFlags(h)
    BY <1>13 DEF BringsFlags, Call, OfFlags
  <2>2. ~BringsFlags(h)'
    BY <1>13 DEF BringsFlags, Call, OfFlags
  <2> QED BY <1>1, <1>13, <2>1, <2>2, NothingBrought
<1>14. CASE Completed(h) /\ handler' = [handler EXCEPT ![h].step = "stream"]
  <2>1. r.todo # <<>> /\ Head(r.todo) = "completion" /\ r.step # "relogin"
    BY <1>2, <1>14, ReturnsFacts DEF Completed, Busy
  <2>2. Only(h) /\ n.todo = r.todo
    BY <1>2, <1>14 DEF HandlersOK, HandlerOK, IsRecord, Only
  <2> QED BY <1>13, <2>1, <2>2
<1>15. CASE Timer(h)
  <2>1. Only(h) /\ n.answer = r.answer /\ r.answer = NoAnswer
    BY <1>2, <1>15, StaysFields DEF Timer, HandlerOK, Stays
  <2>2. ~BringsFlags(h)
    BY <2>1, NoStatus DEF BringsFlags
  <2> QED BY <1>5, <2>1, <2>2
<1>16. CASE Frame(h)
  <2>1. r.todo # <<>> /\ r.step = "stream" /\ Only(h) /\ n.todo = r.todo
    BY <1>2, <1>16, StaysFields DEF Frame, Streams, Busy, Stays
  <2> QED BY <1>2, <1>13, <2>1 DEF Streaming
<1>17. CASE EndStream(h)
  <2>1. ~BringsFlags(h)
    BY <1>2, <1>17 DEF EndStream, Streams, Busy, Streaming, BringsFlags, Call, OfFlags
  <2> QED BY <1>2, <1>5, <1>17, <2>1, GoesFields DEF EndStream
<1>18. CASE Gesture(h)
  <2>1. CASE Submit(h) /\ active = NoChat
    BY <1>2, <1>5, <2>1, ToastFields DEF Submit, BringsFlags
  <2>2. CASE \E calls, token, c : Starts(h, calls, token, c)
    BY <1>2, <1>5, <2>2, StartsFields DEF BringsFlags
  <2>3. (Submit(h) /\ active = NoChat) \/ \E calls, token, c : Starts(h, calls, token, c)
    BY <1>18 DEF Gesture, Connect, RefreshChats, NewChat, Submit, PatchFlag, PickChat
  <2> QED BY <2>1, <2>2, <2>3
<1> QED BY <1>6, <1>7, <1>8, <1>9, <1>10, <1>11, <1>12, <1>14, <1>15, <1>16, <1>17, <1>18
        DEF Completed

LEMMA SInvStep == IInv /\ FInv /\ SInv /\ [Next]_vars => SInv'
<1> SUFFICES ASSUME IInv, FInv, SInv, [Next]_vars PROVE SInv'
  OBVIOUS
<1>1. ASSUME NEW h \in Handlers, Runs(h) \/ Serve(h) \/ Frame(h) \/ EndStream(h) \/ Gesture(h)
      PROVE  SInv'
  BY <1>1, ServeSInv, ShownSInv, RestSInv DEF Runs
<1>2. CASE Restart \/ UNCHANGED vars
  <2>1. UNCHANGED <<raced, flags, learned, handler>>
    BY <1>2 DEF Restart, vars, server, shown
  <2>2. \A h \in Handlers : BringsFlags(h)' <=> BringsFlags(h)
    BY <2>1 DEF BringsFlags, Busy, Call
  <2> QED BY <2>1, <2>2 DEF SInv
<1> QED BY <1>1, <1>2 DEF Next

\* However answers are lost or overtake one another and whenever the server
\* restarts: a settled page whose last probe was answered by the server that now
\* runs has been told its flags, and shows them unless an older answer came late.
THEOREM FlagsAreLearnedCorrect == Spec => []FlagsAreLearned
<1>1. ASSUME IInv, FInv, ~deaf, Settled PROVE learned = version
  <2>1. SUFFICES ASSUME learned # version PROVE FALSE
    OBVIOUS
  <2>2. PICK h \in Handlers : Teaches(handler[h], version)
    BY <1>1, <2>1 DEF FInv
  <2>3. handler[h].todo \in Todos /\ handler[h].todo # <<>>
        /\ Head(handler[h].todo) \in {"patch", "login", "health"}
    BY <1>1, <2>2 DEF IInv, HandlersOK, HandlerOK, Teaches
  <2> QED BY <1>1, <2>3, ProbesInTodo DEF Settled, OfFlags
<1>2. ASSUME IInv, SInv, ~raced, Settled PROVE flags = learned
  <2>1. ASSUME NEW h \in Handlers, BringsFlags(h) PROVE FALSE
    <3>1. /\ handler[h].todo \in Todos /\ handler[h].todo # <<>>
          /\ Head(handler[h].todo) \in {"health", "patch"}
      BY <1>2, <2>1 DEF IInv, HandlersOK, HandlerOK, BringsFlags, Busy, Call, OfFlags
    <3> QED BY <1>2, <3>1, ProbesInTodo DEF Settled, OfFlags
  <2> QED BY <1>2, <2>1 DEF SInv
<1>3. IInv /\ FInv /\ SInv => FlagsAreLearned
  BY <1>1, <1>2 DEF FlagsAreLearned
<1> QED BY <1>3, InitSInv, SInvStep, FInvCorrect, PTL DEF Spec

-----------------------------------------------------------------------------
(***************************************************************************)
(* The screen.  As long as the selection of the chat on screen and the     *)
(* prompts since overlapped with nothing, whoever will draw on the screen  *)
(* draws for that chat, and a history that will replace the screen is      *)
(* waited for alone and before anything was said.                          *)
(***************************************************************************)

Waiting(r) == r.todo # <<>> /\ Head(r.todo) \in {"history", "completion"}
Loading(r) == r.todo # <<>> /\ Head(r.todo) = "history"

ForActive ==
  /\ \A row \in screen : row.chat = active
  /\ \A h \in Handlers : Waiting(handler[h]) => handler[h].chat = active

LoadsAlone ==
  \A h \in Handlers : Loading(handler[h]) =>
    said = {} /\ \A o \in Handlers \ {h} : ~Waiting(handler[o])

KInv == view = "chat" /\ ~crossed => ForActive /\ said \subseteq screen /\ LoadsAlone

LEMMA RowChat == \A c, loaded : Row(c, loaded).chat = c
BY DEF Row

LEMMA InitKInv == Init => KInv
BY DEF Init, KInv

\* A handler that draws nothing, and waits for nothing it did not wait for
LEMMA QuietKInv ==
  ASSUME KInv, NEW h \in Handlers, Only(h), UNCHANGED <<screen, said, crossed>>,
         view' = "chat" => view = "chat" /\ active' = active,
         Waiting(handler'[h]) =>
           Waiting(handler[h]) /\ handler'[h].todo = handler[h].todo
                               /\ handler'[h].chat = handler[h].chat
  PROVE  KInv'
<1> SUFFICES ASSUME view' = "chat", ~crossed'
             PROVE  (ForActive /\ said \subseteq screen /\ LoadsAlone)'
  BY DEF KInv
<1>1. ForActive /\ said \subseteq screen /\ LoadsAlone /\ active' = active
  BY DEF KInv
<1>2. ASSUME NEW o \in Handlers, Waiting(handler'[o])
      PROVE  /\ Waiting(handler[o]) /\ handler'[o].chat = handler[o].chat
             /\ handler'[o].todo = handler[o].todo
  BY <1>2 DEF Only
<1>3. ForActive'
  BY <1>1, <1>2 DEF ForActive
<1>4. \A o \in Handlers : Loading(handler'[o]) => Waiting(handler'[o])
  BY DEF Loading, Waiting
<1>5. \A o \in Handlers : Loading(handler'[o]) => Loading(handler[o])
  BY <1>2, <1>4 DEF Loading
<1>6. LoadsAlone'
  BY <1>1, <1>2, <1>5 DEF LoadsAlone
<1> QED BY <1>1, <1>3, <1>6

\* A row drawn for a prompt
LEMMA DrawKInv ==
  ASSUME KInv, NEW h \in Handlers, Only(h), UNCHANGED <<view, active, crossed>>,
         Waiting(handler[h]), ~Loading(handler[h]),
         Draw(Row(handler[h].chat, FALSE)),
         ~Loading(handler'[h]),
         Waiting(handler'[h]) => handler'[h].chat = handler[h].chat
  PROVE  KInv'
<1> SUFFICES ASSUME view = "chat", ~crossed
             PROVE  (ForActive /\ said \subseteq screen /\ LoadsAlone)'
  BY DEF KInv
<1>1. ForActive /\ said \subseteq screen /\ LoadsAlone /\ handler[h].chat = active
  BY DEF KInv, ForActive
<1>2. \A row \in screen' : row.chat = active'
  BY <1>1, RowChat DEF ForActive, Draw
<1>3. ASSUME NEW o \in Handlers, Waiting(handler'[o])
      PROVE  handler'[o].chat = active'
  <2>1. CASE o = h
    BY <1>1, <1>3, <2>1
  <2>2. CASE o # h
    BY <1>1, <1>3, <2>2 DEF Only, ForActive
  <2> QED BY <2>1, <2>2
<1>4. ForActive'
  BY <1>2, <1>3 DEF ForActive
<1>5. \A o \in Handlers : ~Loading(handler'[o])
  BY <1>1 DEF LoadsAlone, Only
<1> QED BY <1>1, <1>4, <1>5 DEF LoadsAlone, Draw

\* A selection
LEMMA SelectKInv ==
  ASSUME NEW h \in Handlers, NEW c, Only(h), SelectChat(h, c),
         handler'[h].todo = <<"history">>, handler'[h].chat = c
  PROVE  KInv'
<1> SUFFICES ASSUME ~crossed'
             PROVE  (ForActive /\ said \subseteq screen /\ LoadsAlone)'
  BY DEF KInv
<1>1. \A o \in Handlers \ {h} : ~Waiting(handler'[o])
  BY DEF SelectChat, Awaits, Busy, Waiting, Only
<1>2. ForActive'
  BY <1>1 DEF ForActive, SelectChat
<1>3. \A o \in Handlers : Loading(handler'[o]) => o = h
  BY <1>1 DEF Loading, Waiting
<1>4. LoadsAlone'
  BY <1>1, <1>3 DEF LoadsAlone, SelectChat
<1> QED BY <1>2, <1>4 DEF SelectChat

LEMMA HistoryKInv ==
  ASSUME IInv, KInv, NEW h \in Handlers, HistoryLoaded(h)
  PROVE  KInv'
<1>1. /\ Only(h) /\ handler'[h].todo = <<>> /\ Loading(handler[h])
      /\ UNCHANGED <<view, active, crossed, said>>
      /\ screen' \in {{Row(handler[h].chat, TRUE)}, {}}
  BY GoesFields, ReturnsFacts DEF IInv, HistoryLoaded, history, Busy, Loading
<1> SUFFICES ASSUME view = "chat", ~crossed
             PROVE  (ForActive /\ said \subseteq screen /\ LoadsAlone)'
  BY <1>1 DEF KInv
<1>2. ForActive /\ said = {} /\ (\A o \in Handlers \ {h} : ~Waiting(handler[o]))
      /\ handler[h].chat = active
  BY <1>1 DEF KInv, ForActive, LoadsAlone, Loading, Waiting
<1>3. \A o \in Handlers : ~Waiting(handler'[o])
  BY <1>1, <1>2 DEF Only, Waiting
<1>4. ForActive'
  BY <1>1, <1>2, <1>3, RowChat DEF ForActive
<1>5. LoadsAlone'
  BY <1>3 DEF LoadsAlone, Loading, Waiting
<1> QED BY <1>1, <1>2, <1>4, <1>5

LEMMA SubmitKInv ==
  ASSUME IInv, KInv, NEW h \in Handlers, Submit(h)
  PROVE  KInv'
<1>1. active # NoChat /\ view = "chat"
  BY DEF Submit, IInv, ComposerHasChat
<1>2. /\ Starts(h, <<"completion">>, jwt, active)
      /\ Draw(Row(active, FALSE)) /\ UNCHANGED <<active, view>>
      /\ crossed' = (crossed \/ \E o \in Handlers : Awaits(o, {"history"}))
  BY <1>1 DEF Submit
<1>3. Only(h) /\ handler'[h].todo = <<"completion">> /\ handler'[h].chat = active
  BY <1>2, StartsFields DEF IInv
<1>4. ~Loading(handler'[h])
  BY <1>3, Tails DEF Loading
<1> SUFFICES ASSUME ~crossed'
             PROVE  (ForActive /\ said \subseteq screen /\ LoadsAlone)'
  BY DEF KInv
<1>5. ForActive /\ said \subseteq screen /\ \A o \in Handlers : ~Loading(handler[o])
  BY <1>1, <1>2 DEF KInv, Awaits, Busy, Loading
<1>6. ForActive'
  <2>1. \A row \in screen' : row.chat = active'
    BY <1>2, <1>5, RowChat DEF ForActive, Draw
  <2>2. ASSUME NEW o \in Handlers, Waiting(handler'[o])
        PROVE  handler'[o].chat = active'
    <3>1. CASE o = h
      BY <1>2, <1>3, <3>1
    <3>2. CASE o # h
      BY <1>2, <1>3, <1>5, <2>2, <3>2 DEF Only, ForActive
    <3> QED BY <3>1, <3>2
  <2> QED BY <2>1, <2>2 DEF ForActive
<1>7. \A o \in Handlers : ~Loading(handler'[o])
  BY <1>3, <1>4, <1>5 DEF Only
<1> QED BY <1>2, <1>5, <1>6, <1>7 DEF LoadsAlone, Draw

LEMMA CompletedKInv ==
  ASSUME IInv, FInv, KInv, NEW h \in Handlers, Completed(h) \/ Frame(h)
  PROVE  KInv'
<1> DEFINE r == handler[h]
           n == handler'[h]
<1>1. UNCHANGED <<view, active, crossed>>
  BY DEF Completed, Frame
<1>2. r.todo # <<>> /\ Head(r.todo) = "completion"
  <2>1. CASE Completed(h)
    BY <2>1, ReturnsFacts DEF Completed, IInv, Busy
  <2>2. CASE Frame(h)
    BY <2>2 DEF Frame, Streams, Busy, FInv, Truthful, Streaming
  <2> QED BY <2>1, <2>2
<1>3. Waiting(r) /\ ~Loading(r)
  BY <1>2 DEF Waiting, Loading
<1>4. /\ Only(h) /\ ~Loading(n) /\ (Waiting(n) => n.todo = r.todo /\ n.chat = r.chat)
  <2>1. CASE Frame(h)
    BY <1>2, <2>1, StaysFields DEF IInv, Stays, Loading
  <2>2. CASE Completed(h) /\ handler' = Goes(h, <<>>, jwt)
    BY <2>2, GoesFields DEF IInv, Loading, Waiting
  <2>3. CASE Completed(h) /\ handler' = [handler EXCEPT ![h].step = "stream"]
    BY <1>2, <2>3 DEF IInv, HandlersOK, HandlerOK, IsRecord, Only, Loading
  <2> QED BY <2>1, <2>2, <2>3 DEF Completed
<1>5. Draw(Row(r.chat, FALSE)) \/ UNCHANGED <<screen, said>>
  BY DEF Completed, Frame
<1>6. CASE Draw(Row(r.chat, FALSE))
  BY <1>1, <1>3, <1>4, <1>6, DrawKInv
<1>7. CASE UNCHANGED <<screen, said>>
  BY <1>1, <1>3, <1>4, <1>7, QuietKInv
<1> QED BY <1>5, <1>6, <1>7

LEMMA LoadedKInv ==
  ASSUME IInv, KInv, NEW h \in Handlers, Loaded(h)
  PROVE  KInv'
<1>1. /\ handler[h].todo \in Todos /\ handler[h].todo # <<>> /\ Head(handler[h].todo) = "list"
      /\ Only(h) /\ handler'[h].todo = Tail(handler[h].todo)
      /\ Tail(handler[h].todo) # <<>> => handler'[h].chat = handler[h].chat
  BY GoesFields, ReturnsFacts DEF IInv, Loaded
<1>2. CASE Tail(handler[h].todo) = <<"history">>
  <2>1. PICK c : c = handler[h].chat
    OBVIOUS
  <2>2. SelectChat(h, c)
    BY <1>2, <2>1 DEF Loaded
  <2>3. handler'[h].todo = <<"history">> /\ handler'[h].chat = c
    BY <1>1, <1>2, <2>1, Tails
  <2> QED BY <1>1, <2>2, <2>3, SelectKInv
<1>3. CASE Tail(handler[h].todo) # <<"history">>
  <2>1. handler'[h].todo = <<>>
    BY <1>1, <1>3, HeadFacts
  <2>2. UNCHANGED <<screen, said, crossed>>
    BY <1>3 DEF Loaded, history
  <2>3. view' = "chat" => view = "chat" /\ active' = active
    BY <1>3 DEF Loaded, Listed
  <2> QED BY <1>1, <2>1, <2>2, <2>3, QuietKInv DEF Waiting
<1> QED BY <1>2, <1>3

LEMMA PickKInv ==
  ASSUME IInv, NEW h \in Handlers, NEW c \in list, PickChat(h, c)
  PROVE  KInv'
<1>1. Starts(h, <<"history">>, jwt, c) /\ SelectChat(h, c)
  BY DEF PickChat
<1>2. Only(h) /\ handler'[h].todo = <<"history">> /\ handler'[h].chat = c
  BY <1>1, StartsFields DEF IInv
<1> QED BY <1>1, <1>2, SelectKInv

\* Everything else leaves the page alone.
LEMMA RestKInv ==
  ASSUME IInv, KInv, NEW h \in Handlers,
         \/ Serve(h) \/ Relogin(h) \/ Replay(h) \/ Timer(h) \/ EndStream(h)
         \/ LoggedIn(h) \/ Probed(h) \/ Patched(h) \/ Created(h)
         \/ Connect(h) \/ RefreshChats(h) \/ NewChat(h) \/ PatchFlag(h)
  PROVE  KInv'
<1> DEFINE r == handler[h]
           n == handler'[h]
<1> USE DEF IInv
<1>1. UNCHANGED <<screen, said, crossed, view, active>>
  BY DEF Serve, Relogin, Replay, Timer, EndStream, LoggedIn, Probed, Patched, Created,
         Connect, RefreshChats, NewChat, PatchFlag, page, history
<1>2. ASSUME Only(h), ~Waiting(n) PROVE KInv'
  BY <1>1, <1>2, QuietKInv
<1>3. ASSUME Stays(h) PROVE KInv'
  <2>1. Waiting(n) => Waiting(r) /\ n.todo = r.todo /\ n.chat = r.chat
    BY <1>3 DEF Stays, Waiting
  <2> QED BY <1>1, <1>3, <2>1, QuietKInv DEF Stays
<1>4. ASSUME NEW calls, NEW token, handler' = Goes(h, calls, token),
             calls = <<>> \/ Head(calls) \notin {"history", "completion"}
      PROVE  KInv'
  BY <1>2, <1>4, GoesFields DEF Waiting
<1>5. CASE Serve(h) \/ Relogin(h) \/ Replay(h) \/ Timer(h)
  BY <1>3, <1>5, ServeFields, StaysFields
<1>6. CASE EndStream(h)
  BY <1>4, <1>6 DEF EndStream
<1>7. CASE LoggedIn(h)
  <2>1. /\ r.todo \in Todos /\ r.todo # <<>> /\ Head(r.todo) \in {"login", "session"}
    BY <1>7, ReturnsFacts DEF LoggedIn
  <2>2. Head(Tail(r.todo)) \in {"health", "list"}
    BY <2>1, HeadFacts
  <2>3. handler' = Goes(h, <<>>, jwt') \/ handler' = Goes(h, Tail(r.todo), jwt')
    BY <1>7 DEF LoggedIn
  <2> QED BY <1>4, <2>2, <2>3
<1>8. CASE Probed(h)
  <2>1. r.todo \in Todos /\ r.todo # <<>> /\ Head(r.todo) = "health"
    BY <1>8, ReturnsFacts DEF Probed
  <2>2. /\ Tail(r.todo) = <<>> \/ Head(Tail(r.todo)) \in {"list", "session"}
        /\ Tail(r.todo) # <<>> /\ Head(Tail(r.todo)) = "session" =>
             Head(Tail(Tail(r.todo))) = "list"
    BY <2>1, HeadFacts
  <2>3. \/ handler' = Goes(h, Tail(r.todo), jwt)
        \/ /\ Tail(r.todo) # <<>> /\ Head(Tail(r.todo)) = "session"
           /\ handler' = Goes(h, Tail(Tail(r.todo)), jwt)
    BY <1>8 DEF Probed
  <2> QED BY <1>4, <2>2, <2>3
<1>9. ASSUME handler' = Toasts(h) PROVE KInv'
  <2>1. Only(h) /\ n.todo = <<"health">>
    BY <1>9, ToastFields
  <2> QED BY <1>2, <2>1, Tails DEF Waiting
<1>10. CASE Patched(h)
  BY <1>9, <1>10 DEF Patched
<1>11. CASE Created(h)
  <2>1. CASE ~Ok(h)
    BY <1>9, <1>11, <2>1 DEF Created
  <2>2. CASE Ok(h)
    <3>1. Only(h) /\ n.todo = <<"list", "history">>
      BY <1>11, <2>2, CreatedFields
    <3> QED BY <1>2, <3>1, Tails DEF Waiting
  <2> QED BY <2>1, <2>2
<1>12. ASSUME NEW calls, NEW token, NEW c, Starts(h, calls, token, c),
              Head(calls) \notin {"history", "completion"}
       PROVE  KInv'
  BY <1>2, <1>12, StartsFields DEF Waiting
<1>13. CASE Connect(h)
  BY <1>12, <1>13, Tails DEF Connect
<1>14. CASE RefreshChats(h) \/ NewChat(h) \/ PatchFlag(h)
  BY <1>12, <1>14, Tails DEF RefreshChats, NewChat, PatchFlag
<1> QED BY <1>5, <1>6, <1>7, <1>8, <1>10, <1>11, <1>13, <1>14

LEMMA KInvStep == IInv /\ FInv /\ KInv /\ [Next]_vars => KInv'
<1> SUFFICES ASSUME IInv, FInv, KInv, [Next]_vars PROVE KInv'
  OBVIOUS
<1>1. ASSUME NEW h \in Handlers, Runs(h) \/ Serve(h) \/ Frame(h) \/ EndStream(h) \/ Gesture(h)
      PROVE  KInv'
  BY <1>1, HistoryKInv, SubmitKInv, CompletedKInv, LoadedKInv, PickKInv, RestKInv DEF Runs, Gesture
<1>2. CASE Restart \/ UNCHANGED vars
  <2>1. UNCHANGED <<screen, said, crossed, view, active, handler>>
    BY <1>2 DEF Restart, vars, page, history
  <2> QED BY <2>1 DEF KInv, ForActive, LoadsAlone
<1> QED BY <1>1, <1>2 DEF Next

\* Whatever overlaps elsewhere: a selection that overlapped with nothing shows
\* rows of its own chat only, and loses no prompt and no answer.
THEOREM ScreenIsActiveCorrect == Spec => []ScreenIsActive
<1>1. KInv => ScreenIsActive
  BY DEF KInv, ForActive, ScreenIsActive
<1> QED BY <1>1, InitKInv, KInvStep, FInvCorrect, PTL DEF Spec

=============================================================================
