# Verification of the chat completion service

TLA+ modules, TLC runs and TLAPS proofs kept beside the code of the chat
completion service (Express, Prisma, a pluggable AI provider, SSE). Paths are
relative to the repository; code lives in `src/src/` of this checkout and is
written `src/...` below.

## 1. The system

| Component | State it keeps | Operations | Talks to |
|---|---|---|---|
| **Completion pipeline** (`completion.service.ts`, `completion.controller.ts`, `completion-strategy.ts`, `error-handler.middleware.ts`) | locals of `run()` and `execute()`, the response | `run`, the streaming and the JSON strategy, the terminal error handler | database, AI provider, flags, client |
| **AI providers** (`mock-ai.provider.ts`, `openai.provider.ts`, `ai.service.ts`, `weather.tool.ts`) | none | `stream`, `complete` | flags; OpenAI over the network |
| **Persistence** (`chat.repository.ts`, `message.repository.ts`, `schema.prisma`) | tables User, Chat, Message | `findById`, `create`, `recentForContext`, `touch`, `list` (twice) | Postgres |
| **Rate limiter** (`rate-limit.middleware.ts`) | none | one middleware call per request | flags, store |
| **Rate limit stores** (`in-memory.store.ts`, `redis.store.ts`) | a Map of buckets, swept by a timer; or counters in Redis | `hit`, the sweeper, `close` | Redis, shared by instances |
| **Feature flags** (`feature-flag.service.ts`, `feature-flag.types.ts`, `admin.routes.ts`, `env.ts`) | one object of six flags | startup, `PATCH`, `reload`, `change` events | read by everything else |
| **Chat list and history** (`chat.service.ts`, `history-strategy.ts`) | none | `createChat`, `listChats`, `getHistory` | repositories, flags |
| **Server process** (`server.ts`, `database.ts`, `container.ts`) | the process, the connection, singletons | startup, signals, shutdown, `uncaughtException` | everything |
| **Request pipeline** (`app.ts`, `middleware/*`, the routers) | `req.user`, `req.clientType` | app check, auth, client type, limiter, validation | limiter, handlers |
| **Web client** (`client/app.js`) | session, flags, active chat, what is on screen | login, list, select, create, prompt, patch a flag | the API |
| **Demo login** (`dev.routes.ts`) | table User | upsert, token | Postgres |

Everything runs on one event loop, so the program interleaves exactly at its
awaits. What makes it hard:

- a completion has up to seven awaits; between any two of them another request
  writes to the same chat, an operator flips a flag, the client hangs up, or the
  seed script deletes the chat;
- the response is over *before* the answer is stored, so a failure after it
  cannot be told to the client;
- an insert can commit and its acknowledgement be lost;
- the provider can fail, or the client leave, in the middle of a stream;
- the limiter reads the limit, awaits the store, then decides;
- three files bound the values of a flag, and only one of them guards each write;
- `shutdown()` runs once per signal and per uncaught exception, and exits without
  waiting for `server.close()`, under the requests in flight; a rejected
  `$disconnect` is only logged, and the process stays, no longer listening;
- after a restart the Map of the limiter is empty, and the flags are those of the
  environment again;
- pages are read one after the other while rows arrive, possibly with a
  `createdAt` before the cursor's, and while flags switch the strategy;
- the page of the client disables no button, so its handlers overlap, and a 401
  makes a handler log in and replay its call.

What makes each component correct:

| Component | Properties |
|---|---|
| Completion | rows stay with their owner; prompt before answer, each once; the prompt survives; what is stored is what was sent; one well-formed response that ends; a success is stored |
| Limiter | admissions per window and per sliding window; a refusal is justified; counts are not lost |
| Stores | a window is exactly as long as asked, from its first hit, for every caller; the limiter over either is the limiter over that contract; the reset a caller is told can be relied on |
| Flags | no invalid value; 200 means applied; events describe every change |
| Chat list | pages neither skip nor repeat a chat that stayed in place |
| Chat history | a scan is in order, misses only what committed behind it, and ends with the latest message |
| Server, pipeline | what a user gets through is bounded across restarts and failures of the store; only spent callers are refused; one status per response; requests and shutdown end |
| Client | composer and active chat agree; rows belong to the chat on screen; a gesture takes effect once; the flags of the server are learned, and shown unless answers overtook one another; handlers end |

## 2. Modules

| Module | Role |
|---|---|
| `Completion` | the completion pipeline with database, providers, flags and client around it |
| `Exchange` | what a completion promises about response and record, abstractly |
| `MCCompletion` | instances of `Completion` for TLC |
| `CompletionProofs` | theorems about `Completion`: what is stored, what the model is asked, the response, and that `Completion` implements `Exchange` |
| `Clock`, `Callers` | the keys, the window and the time; the requests that call `hit` |
| `FixedWindow` | the contract of `RateLimiterStore.hit` |
| `Limiter` | the middleware's steps and properties, without a store |
| `RateLimiter`, `MCRateLimiter` | the middleware over the contract, and its instances |
| `RateLimiterProofs` | theorems about the middleware over the contract |
| `InMemoryStore` | the Map of buckets |
| `RedisStore` | the Redis store |
| `MapLimiter`, `MCMapLimiter` | the middleware of one process over its Map |
| `RedisLimiter`, `MCRedisLimiter` | the middleware of several instances over one Redis |
| `StoreProofs` | theorems: each store implements `FixedWindow`, the middleware over each implements `RateLimiter`, and what follows for both |
| `FeatureFlags` | the flag store, its admin routes, startup |
| `FlagProofs` | theorems about the flag store |
| `ChatList` | the list of chats, read page by page while it changes |
| `ChatHistory` | the messages of a chat, read page by page while they arrive |
| `ListProofs`, `HistoryProofs` | theorems about `ChatList` and `ChatHistory` |
| `Server`, `MCServer` | the process, and the way of a request through it |
| `ServerProofs` | theorems about `Server` |
| `Client` | the page of the client |
| `ClientProofs` | theorems about `Client` |

`RateLimiter` puts `Limiter` beside `FixedWindow`, the contract in place of a
store. `MapLimiter` and `RedisLimiter` put the same `Limiter` beside the two
stores, and are shown to implement `RateLimiter`, so that what is proved of it
holds over either. `Completion` and `FeatureFlags` meet in two flags, which
`Completion` lets change at any time, and `ChatHistory` in two others. `Server`
composes the process with the pipeline in front of the handlers: limiter and
completion are in it with the steps at which a signal or a crash tells them
apart, and what they do inside is in their own modules. `Client` has the server
as what it may answer.

Definitions marked *Slip* in a comment are mutations: plausible mistakes in the
definition that follows them. They are used by no specification; each breaks the
property `PROJECT.json` pairs it with, which shows that the property depends on
that code.

### Completion

A request is a process; `pc` says which await its handler stands at.

| `pc` | await | action |
|---|---|---|
| `find` | `chats.findById` | `FindChat` |
| `saveUser` | `messages.create` (prompt) | `SaveUser` |
| `readContext` | `messages.recentForContext` | `ReadContext` |
| `resolve` | none; factory, headers, `start`, first call of the provider | `Resolve` |
| `stream` | next event of `ai.stream` | `StreamText`, `StreamTool`, `StreamAbandon`, `StreamDone`, `StreamError` |
| `json` | `ai.complete` | `JsonAnswer`, `JsonError` |
| `saveAnswer` | `messages.create` (answer) | `SaveAnswer` |
| `touch` | `chats.touch` | `Touch` |
| `failed` | none; `asyncHandler` to `next` to the error handler | `ErrorHandler` |

Around the handlers: `Arrive`, `Disconnect` (a client hangs up), `FlipStreaming`
and `FlipTools` (an administrator), `DeleteChat` (the seed script, with the
cascade of the schema).

State and code: `log[c]` is table Message restricted to a chat, in order of
creation; `chats` table Chat; `bumped[c]` the requests whose `touch` landed;
`text`, `tools`, `incomplete`, `clientClosed` are the locals `fullText`,
`toolCalls`, `incomplete`, `clientClosed`; `wire` is everything written to the
response, `ended` that `res.end()` was called; `left` is the truth about the
client, of which the handler knows only `clientClosed`.

Abstractions, and why they do not hide the properties:

- A text is its number of chunks and a list of tool calls its length. What the
  code asks of them is whether they are empty, and the properties whether what
  is stored is what was sent.
- `thinking` frames are left out: they report progress and change no state. A
  `thinking` event also makes the loop look at `clientClosed`, which
  `StreamAbandon` allows at any point where another event may come.
- No two rows of a chat have the same `createdAt`, and rows are created in the
  order in which their inserts commit. In the program both can fail within a
  millisecond; `ChatHistory` has such rows.
- `touch` is a member of a set: the time it writes matters to the list of chats
  only.
- The error handler looks at `headersSent` only, so after `res.end()` it writes and
  ends again, and `ErrorHandler` does so too. That the client reads nothing of it is
  Node's doing, the external `Write`; that Node may report it as an `error` event,
  for which nobody listens, is in module `Server` (`ThrowsUncaught`). No property
  claims the silence after the end for the program.
- Providers: the mock runs its tool first and once, answers with some text and
  does not fail; OpenAI interleaves text and tool calls, may answer without
  text, and may throw at any point. `AI_TOOLS_ENABLED` is read when the provider
  starts.

### Limiter and stores

`FixedWindow` is the doc comment of `hit` made precise ("exactly `windowMs`
starting at the first hit") as the two stores do it: at the instant `resetAt`
the window is closed. `Limiter` cuts `rateLimit()` at its await: `Call` reads
the flag of its instance, `Counts` is what the store tells the request, `Decide`
is what follows the await, and `Fail` is a rejected `hit()` with the catch block,
which lets the request through; such a request keeps no answer. Its hit may have
been counted before, or be counted afterwards (`CountedLate`): a block that was
on its way when the connection failed may still run. `at` is the history of when
a hit was counted, whether or not its caller heard of it.

`InMemoryStore` keeps buckets that are over until they are hit or swept. In
`MapLimiter` the await of `hit()` does not yield to anything but the clock
(`NobodyRuns`): it is settled when it is made, so a request keeps the event loop
from its call to its decision. A Map belongs to one process, so it is the
instance `Process` whose flag and requests it has.

`RedisStore` splits a call into the request, the MULTI block and its reply, which
may be late or lost. In `RedisLimiter` a request and its call move together: it
asks as the call is sent (`Asks`), is counted as the block runs (`RedisCount`),
judges as the reply arrives (`Judges`), fails open as the call throws
(`FailsOpen`), and its late hit is the block that outlived the connection
(`RedisLate`). Each instance has a flag of its own, which `PATCH` changes there
alone.

### Feature flags

A value is a boolean, an integer or anything else. `Validator`, `ReloadBody` /
`FlagBody` and `EnvAccepts` / `EnvValue` are the three places in the code that
bound a flag, each translated from its own file. `Boot` is the parse of the
environment and the constructor, `Patch` and `Reload` are the admin routes with
the store operations they call.

### Chat list

`updatedAt` is table Chat of one user, a function on the ids that have a row;
ids are numbers in the order the database compares them. `Read` is one request
for a page: the caps of `listChats`, the query of `list()` and what its client
keeps, which is the cursor and what it has seen. The cursor is looked up when the
next page is read, so it stands for the place its chat has *then*; a cursor
without a row has nothing after it. `Touch` takes its time and `Land` is its
update, so two touches may land in the other order; `Create` is an insert that
took up to `Lag`. `first`, `moved` and `back` are history variables of the
properties. `QuietAreShown` exempts scans during which a row went back in time:
without that exemption TLC finds a chat at rest that a finished scan has missed.

### Chat history

`createdAt` is table Message of one chat, a function on the ids that have a row.
`FindChat` is the lookup and the choice of the strategy, `List` the query that
follows the await, so a flag may change and a message may land between the two.
`Ascending` is the set of orders that `orderBy: { createdAt: 'asc' }` allows: the
code gives no second key, so rows of one instant come in any order, and in
another one in the next query. The cursor is a row, looked up in the order of the
query that uses it; if its row is gone nothing comes after it. A limited page
ignores the cursor and has no next one. `ListFails` is an error of the database,
after which the caller may ask again; `Create` takes its time when the insert
begins and lands up to `Lag` later; `DeleteChat` cascades. `strategies` and
`behind` are history variables of the properties.

What `MissedOnlyBehind` and `Chronological` exempt is what the code does not
promise, and TLC shows it to be needed: messages that commit with a time at or
before the cursor's are missed, and messages that share their instant (`Tied`, such
as the four rows that the seed script creates with one `createMany`) may be skipped,
repeated or reordered.

### Server and request pipeline

| State | Code |
|---|---|
| `config` | the environment as `env.ts` and `buildContainer` use it |
| `proc`, `starts` | the process; `closed` is after `server.close()` |
| `closing`, `failed` | calls of `shutdown()` that await `$disconnect`, and whether one was rejected |
| `pc`, `kind`, `status` | where a request is, what it is, and the status line of its response |
| `hits` | the limiter's count of a user in its window |
| `judged`, `admitted` | history: who was counted in the user's window, who was let through in it, by the catch block included |
| `failures`, `lives` | history: how often the store failed the user in its window, and how many processes ended after they had counted it there |

`Start`, `Listen` and `StartFails` are `main()`; `Signal`, `Disconnected` and
`DisconnectFails` are `shutdown()` on both sides of its await; `Kill` is anything
that ends the process otherwise. `Ends` cuts every request in flight and forgets
the Map, unless the counts are in Redis: a `RATE_LIMIT_STORE=redis` without
`REDIS_URL` silently takes the Map (`UsesRedis`).

`Enter` is everything that runs without an await once the body is there:
`express.json` (whose error has no status of its own and becomes 500), the routes,
app check, auth and, for routes without a limiter, validation. `Hit` is the store.
In `HitFails` `store.hit()` throws, because Redis was not reached or because it
counted and its reply was lost, and the request is let through; that such a block
may run later still is in `RedisLimiter`. `Judge` is the code after that await,
`Handle`, `Complete`, `Throws` and `ThrowsUncaught` are the handlers with the error
handler. Requests on a connection that is kept alive still arrive after
`server.close()`.

What `WindowAcrossRestarts` bounds is everything that was let through. A counter of
the user's window (`Counters`) is the one Redis, or the Map of each process that
counted it: a process that failed to start, or ended before the user came, gives
nothing away. To the limit for each counter comes one request for each failure of
the store, which fails open.

### Client

A handler of the page is the list of the calls it has still to make; the first is
under way. `Serve` is the server and the network for one call: it refuses, fails, is
executed and answered, or is executed and its answer lost. `Relogin` and `Replay`
are `jsonReq`, in the order of its awaits; `Returns` hands an answer to the handler,
and `LoggedIn`, `Probed`, `Patched`, `Created`, `Loaded`, `HistoryLoaded`,
`Completed`, `Frame` and `EndStream` are what the handlers do up to their next
await. Gestures start handlers: `Connect`, `RefreshChats`, `NewChat`, `PickChat`,
`Submit`, `PatchFlag`. `Restart` is a server that restarts, with another
`JWT_SECRET` or the one it had. Its flags live in memory and are those of the
environment again, so a restart sets them as a PATCH does, and the page is told
nothing of it (`deaf`) until a probe is answered. The variables of the page carry
the names of `state` and `els`; rows on screen are told apart only by their chat and
by whether they were loaded or appended, which is what `ScreenIsActive` is about.
`said`, `crossed`, `learned`, `deaf` and `raced` are history variables. `raced` says
that older flags were still on their way when the page was last answered with flags:
they may be drawn over the newer ones, and stay (`app.js:205`, `149`).
`FlagsAreLearned` says that nothing else makes a settled page show other flags than
the server has.

Some behaviour the model shows that is easy to overlook: `runCompletion` does not
go through `jsonReq`, so an expired token shows an error there and is not renewed;
a wrong admin token is a 401 too, so patching a flag with one drops the user's
token, logs in again and replays; and when calls overlap, the rows of an answer
can land in the wrong chat, which is why `ScreenIsActive` exempts exactly the
selections and prompts that overlapped with another call.

## 3. Runs

| Run | Shows | Bounds |
|---|---|---|
| `completion` | types, and eight safety and action properties of two prompts on one chat, both providers, both modes, all failures | 2 requests, window of 2 rows, 1 chunk and 1 tool call per answer |
| `completion_live` | isolation from a stranger, liveness, and that `Completion` implements `Exchange` | owner and stranger, weather prompt |
| `completion_disconnect` | *violated*: a hang-up is always marked | 1 request |
| `completion_tool_only` | *violated*: whatever we have is stored | 1 request |
| `rate_limiter` | admissions per window and per sliding window, justified refusals, distinct counts | 4 requests of one key, 2 instances, limits 1 and 2, window of 2 ticks, 3 ticks |
| `map_limiter` | the middleware over the Map implements `RateLimiter`; the sweeper is invisible | 4 + 1 requests on 2 keys, limits 1 and 2, 2 windows of 2 ticks |
| `redis_limiter` | the middleware over Redis implements `RateLimiter`; a reset that was told is honoured | 3 requests of one key, 2 instances, limits 1 and 2, 2 windows of 2 ticks, replies up to 1 tick late |
| `feature_flags` | values stay valid, 200 means applied, events tell changes | one flag of each type, integers on both sides of each bound |
| `chat_list` | a finished scan has shown every chat at rest; inserts repeat and hide nothing | 3 chats, pages of 1 and 2, 2 touches in flight, 3 instants |
| `chat_history` | what a finished scan has shown, in which order, with which end | 5 messages, pages of 2, limited to 1 or 3, 3 ticks, inserts up to 1 tick late |
| `client` | composer, rows on screen, effects of replays, flags, progress | 2 handlers, 3 gestures, 2 chats, 2 starts with one secret or two, flags set 3 times |
| `server` | what is let through across restarts and failures of the store, refusals, one status, requests and shutdown end | 3 requests, 2 users, limit 1, 2 starts, 1 signal, four environments |

Why the bounds are enough. Two requests give every order of two handlers' inserts
and reads, and a window of two rows is full when both have stored their prompts and
one its answer, so a prompt can be pushed out of its own context. One chunk and one
tool call distinguish an empty answer from one with text, with tools and with both;
more chunks repeat a step. Limits 1 and 2 with windows of two ticks and three ticks
of time give two adjacent windows, bursts on both sides of their boundary, and a
flag that changes between a read and a decision; four requests are one more than
`2L-1`. The Map needs two keys because sweeping touches all of them. Redis needs two
windows because EXPIRE NX must act again after an expiry, and three requests: one
admitted, one refused, and one that comes back at the time the second was told; its
keys do not meet, so one is enough. Two instances are the fewest whose flags differ.
Three chats on pages of one and two give a first, a middle and a last page, rows of
equal time, and two touches in flight are the fewest that can land out of order.
Five messages on pages of two give two full pages and a last one that is not, a
limited page that is shorter and one that is longer than a page, ties across the
boundary of two pages, and a message that lands behind the cursor. Two handlers with
three gestures give each pair of overlapping calls, a selection that supersedes
another, and a gesture after what they left; a second secret makes one 401 per
token, and flags that are set three times, by two starts and a PATCH or by the first
start and two PATCHes, give the restart that takes a PATCH back and two answers that
overtake one another. Two requests under a limit of one are the fewest of which one
is refused; the third is one more than a limit of one lets through in two processes,
or beside a failure. One request takes every way through the pipeline, the other two
are chats whose input is bad, which get past the limiter and end there. Two starts
give a Map that is lost in the middle of a window, and one signal with uncaught
exceptions gives two calls of `shutdown()`. The four environments are each choice of
store (the Map, Redis, Redis without its URL), and a provider without its key.

Symmetry is used only in runs without liveness: over requests that have the same
chat, caller and kind of prompt, over instances, over messages, over ids of chats,
and over the slots for handlers of the client.

Deadlock is checked except where the system or its bounds let it stop: a page
whose user makes no more gestures (`client`), a process that is not started again
(`server`) or exits because its environment does not parse (`feature_flags`), and
a limited number of requests and of ticks (`rate_limiter`,
`map_limiter`, `redis_limiter`).

The two violations are disagreements between a sentence of the repository and
the code. `PROJECT.json` quotes them under `findings`, with four that are not
runs of their own: the sliding window that two fixed ones allow (`SlidingLimit`
states what holds instead, `2L-1`), tools that are on by default where the README
says off, `close()` of the stores, which nothing calls, and a malformed body that
is answered before the request has an id.

### Fairness

`FairSpec` of `Completion` assumes weak fairness of each handler and nothing
else: every call the handler awaits settles, with a result or an error, and a
stream of the provider is finite. The event loop runs every settled callback, so
a handler that can move does. Clients, operators and the seed script are never
obliged to act. `FairSpec` of `Server` assumes the same of each request that is
in the process, of `main()` after a start and of `$disconnect`; nobody need
start, signal or kill the process or send a request. No fairness is assumed of
the other modules: their properties are safety. `Advances` says without fairness
that each step of a handler of the client comes nearer to its end.

## 4. Proofs

Every safety and every action property of the runs that pass is stated by a theorem.
`tlapm` proves every theorem and lemma of the proof modules, for all values of the
constants that satisfy the named assumptions of the modules: functions map requests
to chats, users and keys (`TargetAssumption`, `CallerAssumption`, `OwnerAssumption`,
`KeyAssumption`), bounds are naturals, windows and limits are positive
(`WindowAssumption`, `LimitAssumption`), the limits that the flag takes have a
maximum, the process with the Map is an instance (`ProcessAssumption`), the kinds of
requests and environments of `Server` are of their types, and the id that stands for
no chat is not one. No assumption restricts the number of requests, chats, keys,
calls or users, and the sets need not be finite, with one exception: `Server` counts
requests with `Cardinality`, so there they are finitely many (`RequestAssumption`).
Sizes of pages are positive (`SizeAssumption`). Bounds such as `MaxTime` or
`MaxStarts` remain parameters, so a theorem holds however far the clock runs.

### Completion: what is stored

`TypeCorrect`, `IsolationCorrect`, `AnswerFollowsPromptCorrect` and
`PromptSurvivesCorrect` follow from one inductive invariant, `IInv`. The three
properties speak of rows that are stored and say nothing of a handler that is
about to store one, so they are not inductive. What is added:

| Conjunct | Why it is needed |
|---|---|
| `Admission` | an insert is in the chat of its owner only because the handler got past `findById`, several awaits earlier |
| `RowsAtHome`, `ContextAtHome` | a context is read from rows, so isolation of one needs that of the other |
| `PromptRows` | the prompt found later in the log is the very row that was inserted |
| `NothingBeforePrompt`, `NoAnswerBeforeSave` | an insert adds the first row of its role; without them a second prompt or answer could precede it |
| `PromptKept` | `PromptSurvives`, extended to the handlers that have not answered yet |

The lemmas `Moves`, `LogMoves` and `SuccessMoves` say once which parts of the
state any step can touch; each conjunct is then proved from them instead of
from all nineteen actions.

### Completion: the response, and the contract

Its part on the response adds to `IInv` what a handler has written where it stands
(`Response`), and that an answer which was stored stays until the chat is deleted
(`AnswerKept`). A step is one request's own or leaves the request alone (`OwnStep`),
so both are proved for one request at a time. `Response` is stronger than the
properties because it ties `pc` to the wire: `failed` means that nothing was written
or that the response is over, so what the error handler adds is the only ending or
comes after it; `saveAnswer` means that it is over, with `incomplete` set exactly
when it did not succeed. From it follow `WireWellFormedCorrect`,
`RefusalIsToldCorrect`, `NoSilentLossCorrect` and `StopsAfterNoticeCorrect`.

`KeepsContractCorrect` is the refinement. Each action changes the reply of one
request (`ReplySteps`), the record of one request (`RecordOfPrompt`,
`RecordOfAnswer`, with `RecordOfOthers` for the rest) or deletes a chat
(`DeleteRefines`), and each is a step or a stutter of `Exchange`. It needs both
invariants: that a stream starts for a remembered prompt is `PromptKept`, that the
answer is stored as its response ended is `Response`. `RecordMatchesReplyCorrect`
is the invariant of `Exchange` that a client relies on, carried over.

### Completion: what the model is asked, and what was sent

`PromptReachesModelCorrect` is `Reached` of every handler whose context has been
read: the prompt is in it, or it is full and its first row is newer than the prompt
(`Outrun`). What `recentForContext` leaves out is older than the first row it
returns (`NewestWindow`), and that the prompt is among the rows at all is
`PromptKept` (`ReachedByReading`). Rows that others insert later come behind both
(`ReachedStays`).

`StoredIsSentCorrect` is a count of frames against a count of events. `Tally` ties
`text` and `tools` to the numbers of `token` and `tool_execution` frames at every
point of the stream, `TallyStep` shows that one more frame is one more of one
kind, and `SentStays` that nothing is counted once the response is over, between
the insert of the answer and the end of the handler included.

### Limiter

`CountsAreDistinctCorrect` and `WindowLimitCorrect` rest on `IInv` of
`RateLimiterProofs`. Its heart is `Tracked`: while a window lasts, the counts
answered from it are at most the count it has now, so the next hit is told a
larger one (`HitIsNewest`), be it the hit of a request that waits or one that is
counted after its call failed (`HitTracks`). `OpenIsCurrent` separates a window
from the next one of its key, `Ordered` the earlier from the later of one window,
and `Within` keeps the limit that was read for the later decision. The bound on
admissions is then a counting argument: the admitted requests of a window map
injectively to `1..Largest`.

`SlidingLimitCorrect` adds the times: `Timed`, that a request was counted while its
window lasted and the first one as it opened, and `Spaced`, that of two windows of
a key the later opens when the earlier is over. `Window` ticks in a row then meet at
most two windows, and if they meet two, the hit that opened the earlier one is not
among them (`TwoWindows`). That is where the `2L-1` of the property comes from
instead of `2L`.

`RefusalIsJustifiedCorrect` counts the others: `Started`, that only finitely many
requests have come, `Filled` and `Preceded`, that no count is larger than the number
of requests that made it, in an open window and before each answer, and `Refused`,
that a refused request was told a count above the limit it read. The requests that
made a count are those whose hit was counted, the ones that heard of it and the
ones that failed and never did: `HitFills` adds either kind, and a call that fails
takes nothing away (`SeenStays`).

### Stores

`StoreProofs` goes up three levels.

*Each store keeps the contract.* `MapKeepsWindowsCorrect` and
`RedisKeepsWindowsCorrect` take windows that are over as closed. For the Map the
mapping hides buckets that are over (`IsLive`), and each sweep is then a stutter
(`SweepShows`), which is also `SweepIsInvisible`. For Redis the mapping is the
counter with its expiry; it needs `ExpiryIsAhead`: a counter exists if and only if
its expiry lies ahead (`NeverStuck`), at most one window away. EXPIRE NX establishes
it and a later hit does not disturb it. `ResetIsNotEarlyCorrect` adds
`RepliesAreRecent`: a reply on its way is at most `MaxDelay` old.

*The middleware over each store is the middleware over the contract.* A step of
`MapLimiter` or `RedisLimiter` is a step or a stutter of the store beside it
(`MapLimiterUsesMap`, `RedisLimiterUsesRedis`), so the store's invariants hold
there too, and with them each step is one of `RateLimiter` under the same mapping:
`MapKeepsLimiterCorrect`, `RedisKeepsLimiterCorrect`.

*So its theorems hold over both.* `OverMap` and `OverRedis` are
`RateLimiterProofs` with the mapped windows for `window`. The limiter's properties
speak of the middleware's variables alone, which both have unchanged, so
`MapLimitsCorrect` and `RedisLimitsCorrect` state all four of the composed systems.

`ResetIsHonouredCorrect` is not among those: what a caller is told over Redis is no
variable of the contract. Its invariant is `Linked`, that a request stands where its
call stands and holds as its answer the window its block counted in, until
`ranAt + pttl`. As the reset told is never before that, a request that is counted at
or after it was counted in another window.

### Feature flags

`NeverPoisoned` with the types is inductive. The one step that needs an argument is
`Boot`: the bounds in `env.ts` imply those of the validators (`EnvTypes`).
`AcceptedMeansApplied` needs that whatever the zod schema of the reload route
accepts, the validator accepts too (`ReloadBodyIsStrict`), because `reload()`
silently skips what a validator rejects. `ChangesAreToldCorrect` goes through the
routes (`PatchTells`, `ReloadTells`): what a step changes it publishes, with the
value that was overwritten.

### Server

`IInv` of `ServerProofs` has, besides types:

| Conjunct | Why it is needed |
|---|---|
| `NoStatusYet` | a request that has not reached its handler's answer has no status, so the first one is the only one |
| `CountedOnce` | a request that has not been counted is in neither set of its user |
| `HitsAreRequests` | the count is never larger than the number of requests counted in the window: a restart only lowers it |
| `Bounded` | besides one request per failure of the store, what was let through is at most the limit for every process that has counted and ended, and for the counter of now its count or the limit, whichever is less (`Allowed`); over Redis no counter has ended |

`WindowAcrossRestartsCorrect` is `Bounded` with the limit for the counter of now if
it has counted. A hit that is let through raises the count that is at most the limit
(`AllowedHit`), a failure raises what is allowed with what is let through
(`HitFailsStep`), and a process that ends moves its count to the past, where it can
only be worth more (`AllowedNext`, `EndsStep`). `RefusedOnlyWhenSpentCorrect` is
`HitsAreRequests` at the step that refuses, and
`StatusIsFinalCorrect` is `NoStatusYet` for every action that sets a status.

### Client

`IInv` of `ClientProofs` is `ComposerHasChat` with `HandlersOK`, which lists what
a handler may still have to call and says that a call which is under way or was
refused has changed nothing, and `ChatsOK`, that every list holds ids of chats: a
new chat that is selected is one. `EffectsOnceCorrect` is that a replay follows
only a refusal, `AdvancesCorrect` that every step lowers the measure `Left`.

`FlagsAreLearnedCorrect` rests on `FInv`: if the page has not been told the latest
flags and the last probe did not fail, some handler is under way that `Teaches` it
(a probe that will be answered with them, or a call after which the handler
probes), and what an answer in hand says of its version is true (`Truthful`). An
answer to PATCH that is lost leaves such a handler behind or makes the page deaf; a
restart makes it deaf. That the page shows what it was told is `SInv`: unless `raced`,
all flags on their way are the same and no older than those it was told, and if none
are on their way it shows the latest of them. An answer makes it true again or makes
`raced` true (`ServeSInv`), and what arrives is the newest (`ShownSInv`).

`ScreenIsActiveCorrect` rests on `KInv`: as long as nothing overlapped, whoever
will draw on the screen draws for the active chat (`ForActive`), and a history that
will replace the rows is waited for alone and before anything was said
(`LoadsAlone`). A selection establishes both, because it counts as crossed
otherwise; a prompt keeps them, because it counts as crossed while a history is
under way.

### Chat history

In `HistoryProofs` a page is a `Slice` of one order of the rows: the last messages
(`LastNFacts`) or what follows the cursor (`PositionFacts`, `AfterCursorFacts`).
`HInv` adds to the three properties `RestIsLater`: between two pages, what was not
shown, did not commit behind the cursor and has an instant of its own is later
than the cursor. It is what a page of the *next* order can be taken from, though
that order may differ from the last one in the rows of one instant. The page ends
with the cursor of the next, or with the end of the order, which is the latest
message (`ListEnds`): this needs no exemption, so `EndsWithTheLatest` has none.

### Chat list

`LInv` has two halves: `QuietAreAfter`, that what stayed in place and was not shown
comes after the cursor, and `ShownAreBefore`, that what was shown comes before it
as long as nothing moved. A chat that moves forwards can only make the first half
easier, the chat of the cursor included (`KeepsLInv`). `PageFacts` is what
`nextCursor` is right about: a page of finitely many rows has an oldest one, every
row left out is older than that, and without a cursor none is left out. That a
finite set has an oldest element is proved from the well-founded order of its
subsets (`LeastOfFinite`).

### Model-checked only

- Every liveness property: `EveryRequestEnds` (of `Completion` and of `Server`),
  `SuccessIsStored`, `ShutdownEnds`. Liveness under fairness and ENABLED are
  beyond what the proof system can do.
- That the two violations are reachable, and that the system does not deadlock
  where it must not: both are facts about behaviours that exist.

## 5. Not modelled

- Logging, request ids, error classes, wording of validation errors and of
  answers, CORS, headers, the parsing of the client type and the static server: no
  state a property could be about. What the client type decides is an input of
  `ChatList` and `ChatHistory`.
- `/api/admin` inside `Server`: its routes are in `FeatureFlags`, and behind a token
  of their own they pass neither auth nor the limiter.
- `createMany` of the message repository and `close()` of the stores: nothing calls
  them (the seed script uses Prisma itself).
- Prisma, Postgres, Redis, Node's HTTP server and OpenAI are external. They are
  modelled as the code uses them: an insert commits or not and its
  acknowledgement may be lost; MULTI is atomic; a read sees all that has
  committed.
- Errors of single commands inside a MULTI block, a block that the Redis client
  sends again after a reconnection and that runs twice; different clocks of the
  instances and of Redis; limits of the connection pool.
- Rows that a crash leaves behind in the middle of a completion: they stay as
  they are, which the prefixes of a behaviour of `Completion` already show. In
  `Server` such a request is cut.

## 6. What is left

1. A second page of the client, and flags that several administrators change.
2. `createdAt` of two rows within one millisecond in `Completion`, as in
   `ChatHistory`.
