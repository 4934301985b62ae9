----------------------------- MODULE Completion -----------------------------
(***************************************************************************)
(* POST /api/chats/:chatId/completion, from the moment the middleware      *)
(* chain hands the request to the controller until the handler's promise   *)
(* settles: CompletionService.run, the two delivery strategies, the AI     *)
(* provider, the rows it writes and the terminal error handler.            *)
(*                                                                         *)
(* Any number of requests run concurrently on one event loop.  A request   *)
(* is cut into actions at its awaits: an action is one call that the       *)
(* handler awaits, the effect of that call, and the synchronous code that  *)
(* runs when it settles, up to the next await.  Between two actions the    *)
(* client may hang up, an operator may flip a flag, another request may    *)
(* write to the same chat, and the chat may be deleted.                    *)
(*                                                                         *)
(* What is abstracted: a text is the number of its chunks, a list of tool  *)
(* calls is its length, a prompt is the request that carries it.  Frames   *)
(* that only report progress ("thinking") are left out of the wire.        *)
(***************************************************************************)
EXTENDS Naturals, Sequences, FiniteSets

CONSTANTS
  Requests,       \* completion requests; each is handled once
  Chats,          \* chat ids
  Users,          \* user ids
  Target,         \* Target[r]: the :chatId of the request
  Caller,         \* Caller[r]: the authenticated user of the request
  Owner,          \* Owner[c]: Chat.userId
  WeatherPrompts, \* requests whose prompt matches WEATHER_RE
  ContextWindow,  \* CONTEXT_WINDOW_SIZE
  MaxText,        \* bound: chunks of text in one answer
  MaxTools        \* bound: tool calls in one answer

ASSUME TargetAssumption == Target \in [Requests -> Chats]
ASSUME CallerAssumption == Caller \in [Requests -> Users]
ASSUME OwnerAssumption == Owner \in [Chats -> Users]
ASSUME PromptAssumption == WeatherPrompts \subseteq Requests
ASSUME BoundAssumption ==
  /\ ContextWindow \in Nat \ {0}
  /\ MaxText \in Nat \ {0}
  /\ MaxTools \in Nat

VARIABLES
  chats,       \* the rows of table Chat that exist
  log,         \* log[c]: the rows of table Message of chat c, oldest first
  bumped,      \* bumped[c]: the requests whose touch moved Chat.updatedAt
  provider,    \* AI_PROVIDER, fixed when the container is built
  streaming,   \* flag STREAMING_ENABLED
  toolsOn,     \* flag AI_TOOLS_ENABLED
  pc,          \* where the handler of each request stands
  context,     \* the history read for the prompt and not yet handed over
  offered,     \* whether the provider saw AI_TOOLS_ENABLED on
  text,        \* chunks accumulated in fullText
  tools,       \* length of toolCalls
  incomplete,  \* the local of that name in execute
  clientClosed,\* the local of that name in execute, set by the 'close' listener
  errored,     \* the handler's promise was rejected
  wire,        \* what the handler wrote to the response, in order
  ended,       \* res.end() was called
  left         \* the client hung up before the response was ended

dbVars     == <<chats, log, bumped>>
settings   == <<provider, streaming, toolsOn>>
answerVars == <<offered, text, tools, incomplete, clientClosed>>
resVars    == <<wire, ended>>
vars == <<dbVars, settings, pc, context, answerVars, errored, resVars, left>>

-----------------------------------------------------------------------------
(* Rows, frames and control points *)

Control == {"idle", "find", "saveUser", "readContext", "resolve", "stream",
            "json", "saveAnswer", "touch", "failed", "done"}

Row == [from: Requests, role: {"USER", "ASSISTANT"},
        text: Nat, tools: Nat, incomplete: BOOLEAN]

\* "refusal" is the JSON error envelope, "json" the 200 body, the rest SSE events.
Terminal == {"done", "error", "json", "refusal"}
Frame == {"start", "token", "tool_execution"} \cup Terminal

Prompt(r) == [from |-> r, role |-> "USER",
              text |-> 0, tools |-> 0, incomplete |-> FALSE]

\* Slip: the mark is left out of the row.
AnswerUnmarked(r) ==
  [from |-> r, role |-> "ASSISTANT", text |-> text[r], tools |-> tools[r]]

\* A null metadata column reads as no tool calls and not incomplete.
Answer(r) == [from |-> r, role |-> "ASSISTANT",
              text |-> text[r], tools |-> tools[r], incomplete |-> incomplete[r]]

\* Slip: the query forgets to sort newest first.
Oldest(rows, n) == SubSeq(rows, 1, IF Len(rows) > n THEN n ELSE Len(rows))

\* The newest n rows, oldest first.  Only USER and ASSISTANT rows are ever
\* written, and two rows are taken to have different createdAt.
Newest(rows, n) == SubSeq(rows, IF Len(rows) > n THEN Len(rows) - n + 1 ELSE 1, Len(rows))

HeadersSent(r) == wire[r] # <<>>

-----------------------------------------------------------------------------
Init ==
  /\ chats = Chats
  /\ log = [c \in Chats |-> <<>>]
  /\ bumped = [c \in Chats |-> {}]
  /\ provider \in {"mock", "openai"}
  /\ streaming \in BOOLEAN
  /\ toolsOn \in BOOLEAN
  /\ pc = [r \in Requests |-> "idle"]
  /\ context = [r \in Requests |-> <<>>]
  /\ offered = [r \in Requests |-> FALSE]
  /\ text = [r \in Requests |-> 0]
  /\ tools = [r \in Requests |-> 0]
  /\ incomplete = [r \in Requests |-> FALSE]
  /\ clientClosed = [r \in Requests |-> FALSE]
  /\ errored = [r \in Requests |-> FALSE]
  /\ wire = [r \in Requests |-> <<>>]
  /\ ended = [r \in Requests |-> FALSE]
  /\ left = [r \in Requests |-> FALSE]

Goto(r, to) == pc' = [pc EXCEPT ![r] = to]

\* The handler's promise is rejected: asyncHandler passes the error to next().
Reject(r) ==
  /\ Goto(r, "failed")
  /\ errored' = [errored EXCEPT ![r] = TRUE]

\* Slip: an insert that is not acknowledged is sent again.
InsertRetried(r, row, next) ==
  LET c == Target[r]
      Commit == c \in chats /\ log' = [log EXCEPT ![c] = Append(@, row)]
  IN  \/ Commit /\ Goto(r, next) /\ UNCHANGED errored
      \/ Commit /\ UNCHANGED <<pc, errored>>
      \/ Reject(r) /\ UNCHANGED log

(***************************************************************************)
(* An awaited INSERT.  It commits and the handler goes on; or it fails     *)
(* before the commit (which it always does once the chat is gone); or it   *)
(* commits and the connection is lost before the handler learns of it.     *)
(***************************************************************************)
Insert(r, row, next) ==
  LET c == Target[r]
      Commit == c \in chats /\ log' = [log EXCEPT ![c] = Append(@, row)]
  IN  \/ Commit /\ Goto(r, next) /\ UNCHANGED errored
      \/ Commit /\ Reject(r)
      \/ Reject(r) /\ UNCHANGED log

-----------------------------------------------------------------------------
(* CompletionService.run up to the strategy *)

Arrive(r) ==
  /\ pc[r] = "idle"
  /\ Goto(r, "find")
  /\ UNCHANGED <<dbVars, settings, context, answerVars, errored, resVars, left>>

\* Slip: the chat is looked up by its id alone.
FoundForAnyone(r) == Target[r] \in chats

\* The query filters on the caller, so a foreign chat is a missing one (404).
Found(r) == Target[r] \in chats /\ Owner[Target[r]] = Caller[r]

FindChat(r) ==
  /\ pc[r] = "find"
  /\ \/ Found(r) /\ Goto(r, "saveUser") /\ UNCHANGED errored
     \/ Reject(r)
  /\ UNCHANGED <<dbVars, settings, context, answerVars, resVars, left>>

\* Slip: the insert of the prompt is not awaited, and its failure is not seen.
SaveUserUnawaited(r) ==
  /\ pc[r] = "saveUser"
  /\ \/ UNCHANGED log
     \/ Target[r] \in chats /\ log' = [log EXCEPT ![Target[r]] = Append(@, Prompt(r))]
  /\ Goto(r, "readContext")
  /\ UNCHANGED <<chats, bumped, settings, context, answerVars, errored, resVars, left>>

SaveUser(r) ==
  /\ pc[r] = "saveUser"
  /\ Insert(r, Prompt(r), "readContext")
  /\ UNCHANGED <<chats, bumped, settings, context, answerVars, resVars, left>>

ReadContext(r) ==
  /\ pc[r] = "readContext"
  /\ \/ /\ context' = [context EXCEPT ![r] = Newest(log[Target[r]], ContextWindow)]
        /\ Goto(r, "resolve")
        /\ UNCHANGED errored
     \/ Reject(r) /\ UNCHANGED context
  /\ UNCHANGED <<dbVars, settings, answerVars, resVars, left>>

(***************************************************************************)
(* The factory reads STREAMING_ENABLED, the strategy starts and the        *)
(* provider reads AI_TOOLS_ENABLED, all before the event loop runs another *)
(* handler.  Only the streaming strategy listens for 'close', and a client *)
(* that hung up earlier has already emitted it.  The history goes to the   *)
(* provider and is not used again.                                         *)
(***************************************************************************)
Resolve(r) ==
  /\ pc[r] = "resolve"
  /\ offered' = [offered EXCEPT ![r] = toolsOn]
  /\ IF streaming
       THEN Goto(r, "stream") /\ wire' = [wire EXCEPT ![r] = <<"start">>]
       ELSE Goto(r, "json") /\ UNCHANGED wire
  /\ context' = [context EXCEPT ![r] = <<>>]
  /\ UNCHANGED <<dbVars, settings, text, tools, incomplete,
                 clientClosed, errored, ended, left>>

-----------------------------------------------------------------------------
(* The provider: what it may yield next *)

MockRunsTool(r) == offered[r] /\ r \in WeatherPrompts

\* The mock runs its tool first, once; OpenAI interleaves tool calls and text.
MayCallTool(r) ==
  /\ offered[r]
  /\ tools[r] < MaxTools
  /\ provider = "mock" => MockRunsTool(r) /\ tools[r] = 0 /\ text[r] = 0

MayEmitText(r) ==
  /\ text[r] < MaxText
  /\ provider = "mock" => ~MayCallTool(r)

\* The mock always answers with some text; OpenAI may finish without any.
MayFinish(r) == provider = "mock" => text[r] > 0

\* A whole answer, as AIService.complete returns it.
WholeAnswer(r, t, k) ==
  IF provider = "mock"
    THEN t > 0 /\ k = (IF MockRunsTool(r) THEN 1 ELSE 0)
    ELSE k > 0 => offered[r]

-----------------------------------------------------------------------------
(* The strategies.  Settle is the code of run() right after execute():     *)
(* nothing is stored when the answer has no text.                          *)

\* Slip: the answer is stored only for a client that is still there.
SettleForListeners(r, t) ==
  Goto(r, IF t > 0 /\ ~clientClosed[r] THEN "saveAnswer" ELSE "done")

Settle(r, t) == Goto(r, IF t > 0 THEN "saveAnswer" ELSE "done")

Send(r, frame) == wire' = [wire EXCEPT ![r] = Append(@, frame)]

End(r) == ended' = [ended EXCEPT ![r] = TRUE]

\* Slip: the loop does not look at clientClosed.
StreamTextBlindly(r) ==
  /\ pc[r] = "stream" /\ MayEmitText(r)
  /\ text' = [text EXCEPT ![r] = @ + 1]
  /\ Send(r, "token")
  /\ UNCHANGED <<dbVars, settings, pc, context, offered, tools, incomplete,
                 clientClosed, errored, ended, left>>

StreamText(r) ==
  /\ pc[r] = "stream" /\ MayEmitText(r) /\ ~clientClosed[r]
  /\ text' = [text EXCEPT ![r] = @ + 1]
  /\ Send(r, "token")
  /\ UNCHANGED <<dbVars, settings, pc, context, offered, tools, incomplete,
                 clientClosed, errored, ended, left>>

StreamTool(r) ==
  /\ pc[r] = "stream" /\ MayCallTool(r) /\ ~clientClosed[r]
  /\ tools' = [tools EXCEPT ![r] = @ + 1]
  /\ Send(r, "tool_execution")
  /\ UNCHANGED <<dbVars, settings, pc, context, offered, text, incomplete,
                 clientClosed, errored, ended, left>>

\* Slip: leaving the loop does not mark the answer incomplete.
StreamAbandonUnmarked(r) ==
  /\ pc[r] = "stream" /\ clientClosed[r]
  /\ MayEmitText(r) \/ MayCallTool(r)
  /\ End(r)
  /\ Settle(r, text[r])
  /\ UNCHANGED <<dbVars, settings, context, answerVars, errored, wire, left>>

\* The next event of the provider finds the client gone and is dropped.
StreamAbandon(r) ==
  /\ pc[r] = "stream" /\ clientClosed[r]
  /\ MayEmitText(r) \/ MayCallTool(r)
  /\ incomplete' = [incomplete EXCEPT ![r] = TRUE]
  /\ End(r)
  /\ Settle(r, text[r])
  /\ UNCHANGED <<dbVars, settings, context, offered, text, tools,
                 clientClosed, errored, wire, left>>

\* The provider is exhausted; clientClosed is not looked at again.
StreamDone(r) ==
  /\ pc[r] = "stream" /\ MayFinish(r)
  /\ Send(r, "done")
  /\ End(r)
  /\ Settle(r, text[r])
  /\ UNCHANGED <<dbVars, settings, context, answerVars, errored, left>>

\* Slip: a failed stream is told to the client and stored as a whole answer.
StreamErrorUnmarked(r) ==
  /\ pc[r] = "stream" /\ provider = "openai"
  /\ Send(r, "error")
  /\ End(r)
  /\ Settle(r, text[r])
  /\ UNCHANGED <<dbVars, settings, context, answerVars, errored, left>>

\* Slip: the strategy sends the error and rethrows without ending the response.
StreamErrorRethrown(r) ==
  /\ pc[r] = "stream" /\ provider = "openai"
  /\ Send(r, "error")
  /\ Reject(r)
  /\ UNCHANGED <<dbVars, settings, context, answerVars, ended, left>>

\* The provider throws; the strategy swallows the error and still resolves.
StreamError(r) ==
  /\ pc[r] = "stream" /\ provider = "openai"
  /\ incomplete' = [incomplete EXCEPT ![r] = TRUE]
  /\ Send(r, "error")
  /\ End(r)
  /\ Settle(r, text[r])
  /\ UNCHANGED <<dbVars, settings, context, offered, text, tools,
                 clientClosed, errored, left>>

JsonAnswer(r) ==
  /\ pc[r] = "json"
  /\ \E t \in 0..MaxText, k \in 0..MaxTools :
       /\ WholeAnswer(r, t, k)
       /\ text' = [text EXCEPT ![r] = t]
       /\ tools' = [tools EXCEPT ![r] = k]
       /\ Settle(r, t)
  /\ Send(r, "json")
  /\ End(r)
  /\ UNCHANGED <<dbVars, settings, context, offered, incomplete,
                 clientClosed, errored, left>>

JsonError(r) ==
  /\ pc[r] = "json" /\ provider = "openai"
  /\ Reject(r)
  /\ UNCHANGED <<dbVars, settings, context, answerVars, resVars, left>>

-----------------------------------------------------------------------------
(* CompletionService.run after the strategy, and the error handler *)

SaveAnswer(r) ==
  /\ pc[r] = "saveAnswer"
  /\ Insert(r, Answer(r), "touch")
  /\ UNCHANGED <<chats, bumped, settings, context, answerVars, resVars, left>>

\* Slip: the chat is not moved up.
TouchForgotten(r) ==
  /\ pc[r] = "touch"
  /\ Goto(r, "done")
  /\ UNCHANGED <<dbVars, settings, context, answerVars, errored, resVars, left>>

Touch(r) ==
  LET c == Target[r]
      Bump == c \in chats /\ bumped' = [bumped EXCEPT ![c] = @ \cup {r}]
  IN  /\ pc[r] = "touch"
      /\ \/ Bump /\ Goto(r, "done") /\ UNCHANGED errored
         \/ Bump /\ Reject(r)
         \/ Reject(r) /\ UNCHANGED bumped
      /\ UNCHANGED <<chats, log, settings, context, answerVars, resVars, left>>

\* Slip: the response is ended without a word when the prompt was not answered.
ErrorHandlerSilent(r) ==
  /\ pc[r] = "failed"
  /\ UNCHANGED wire
  /\ End(r)
  /\ Goto(r, "done")
  /\ UNCHANGED <<dbVars, settings, context, answerVars, errored, left>>

\* Slip: nobody catches the rejected promise.
ErrorHandlerMissing(r) ==
  /\ pc[r] = "failed"
  /\ Goto(r, "done")
  /\ UNCHANGED <<dbVars, settings, context, answerVars, errored, resVars, left>>

\* ServerResponse.write: Node drops what comes after end().
Write(r, frame) == IF ended[r] THEN UNCHANGED wire ELSE Send(r, frame)

(***************************************************************************)
(* It looks at headersSent only.  A response that has started gets an SSE  *)
(* error frame and is ended, also when it was a JSON body or is over, in   *)
(* which case it is Node that drops both; otherwise the client gets the    *)
(* JSON envelope.                                                          *)
(***************************************************************************)
ErrorHandler(r) ==
  /\ pc[r] = "failed"
  /\ Write(r, IF HeadersSent(r) THEN "error" ELSE "refusal")
  /\ End(r)
  /\ Goto(r, "done")
  /\ UNCHANGED <<dbVars, settings, context, answerVars, errored, left>>

-----------------------------------------------------------------------------
(* The world around a handler *)

\* 'close' reaches the handler only while the streaming strategy listens.
Disconnect(r) ==
  /\ pc[r] # "idle" /\ ~ended[r] /\ ~left[r]
  /\ left' = [left EXCEPT ![r] = TRUE]
  /\ clientClosed' = [clientClosed EXCEPT ![r] = pc[r] = "stream"]
  /\ UNCHANGED <<dbVars, settings, pc, context, offered, text, tools,
                 incomplete, errored, resVars>>

\* An administrator changes a flag while requests are in flight.
FlipStreaming ==
  /\ streaming' = ~streaming
  /\ UNCHANGED <<dbVars, provider, toolsOn, pc, context, answerVars, errored, resVars, left>>

FlipTools ==
  /\ toolsOn' = ~toolsOn
  /\ UNCHANGED <<dbVars, provider, streaming, pc, context, answerVars, errored, resVars, left>>

\* The seed script deletes the demo user's chats; their messages cascade.
DeleteChat(c) ==
  /\ c \in chats
  /\ chats' = chats \ {c}
  /\ log' = [log EXCEPT ![c] = <<>>]
  /\ bumped' = [bumped EXCEPT ![c] = {}]
  /\ UNCHANGED <<settings, pc, context, answerVars, errored, resVars, left>>

-----------------------------------------------------------------------------
Handler(r) ==
  \/ FindChat(r) \/ SaveUser(r) \/ ReadContext(r) \/ Resolve(r)
  \/ StreamText(r) \/ StreamTool(r) \/ StreamAbandon(r)
  \/ StreamDone(r) \/ StreamError(r)
  \/ JsonAnswer(r) \/ JsonError(r)
  \/ SaveAnswer(r) \/ Touch(r) \/ ErrorHandler(r)

Next ==
  \/ \E r \in Requests : Arrive(r) \/ Handler(r) \/ Disconnect(r)
  \/ FlipStreaming
  \/ FlipTools
  \/ \E c \in Chats : DeleteChat(c)

Spec == Init /\ [][Next]_vars

\* Every call the handler awaits settles, so a handler that can move does.
\* Nothing obliges clients, operators or the seed script to do anything.
FairSpec == Spec /\ \A r \in Requests : WF_vars(Handler(r))

-----------------------------------------------------------------------------
(* Properties *)

\* Every variable stays within its type (the locals of execute() and run(),
\* and the rows and frames they produce).
TypeOK ==
  /\ chats \subseteq Chats
  /\ log \in [Chats -> Seq(Row)]
  /\ bumped \in [Chats -> SUBSET Requests]
  /\ provider \in {"mock", "openai"}
  /\ streaming \in BOOLEAN /\ toolsOn \in BOOLEAN
  /\ pc \in [Requests -> Control]
  /\ context \in [Requests -> Seq(Row)]
  /\ offered \in [Requests -> BOOLEAN]
  /\ text \in [Requests -> Nat] /\ tools \in [Requests -> Nat]
  /\ incomplete \in [Requests -> BOOLEAN]
  /\ clientClosed \in [Requests -> BOOLEAN]
  /\ errored \in [Requests -> BOOLEAN]
  /\ wire \in [Requests -> Seq(Frame)]
  /\ ended \in [Requests -> BOOLEAN] /\ left \in [Requests -> BOOLEAN]

Gone(r) == Target[r] \notin chats
Rows(r) == log[Target[r]]
PromptAt(r, i) == i \in DOMAIN Rows(r) /\ Rows(r)[i] = Prompt(r)
AnswerAt(r, i) == /\ i \in DOMAIN Rows(r)
                  /\ Rows(r)[i].from = r /\ Rows(r)[i].role = "ASSISTANT"
Answered(r) == \E i \in DOMAIN Rows(r) : AnswerAt(r, i)
LastFrame(r) == wire[r][Len(wire[r])]
Succeeded(r) == ended[r] /\ wire[r] # <<>> /\ LastFrame(r) \in {"done", "json"}

\* Whatever requests interleave, a chat holds only rows of requests its owner
\* sent to it, and a prompt is answered from rows of its own chat: the caller
\* filter of findById is the only check, made once, before every write.
Isolation ==
  /\ \A c \in Chats : \A i \in DOMAIN log[c] :
       Target[log[c][i].from] = c /\ Caller[log[c][i].from] = Owner[c]
  /\ \A r \in Requests : \A i \in DOMAIN context[r] :
       /\ Target[context[r][i].from] = Target[r]
       /\ Caller[context[r][i].from] = Caller[r]

\* A request stores its prompt at most once and its answer at most once, and
\* an answer never precedes its prompt in the chat, although other requests
\* write between the two inserts and an insert may commit unacknowledged.
AnswerFollowsPrompt ==
  \A c \in Chats : \A i, j \in DOMAIN log[c] :
    /\ log[c][i].from = log[c][j].from /\ log[c][i].role = log[c][j].role => i = j
    /\ log[c][i].role = "ASSISTANT" =>
         \E k \in 1..(i - 1) : log[c][k] = Prompt(log[c][i].from)

\* "Persist the user's message immediately so it survives even if streaming
\* fails": from the moment the model is asked, however the request ends, the
\* prompt is in the chat as long as the chat exists.
PromptSurvives ==
  \A r \in Requests :
    pc[r] \in {"resolve", "stream", "json", "saveAnswer", "touch"} \/ Succeeded(r) =>
      Gone(r) \/ \E i \in DOMAIN Rows(r) : PromptAt(r, i)

\* The history sent to the model ends with rows at least as new as the prompt
\* itself: the prompt is in it unless a whole window of rows of concurrent
\* requests arrived between the insert and the read.
PromptReachesModel ==
  \A r \in Requests : pc[r] = "resolve" =>
    \/ Gone(r)
    \/ \E i \in DOMAIN context[r] : context[r][i] = Prompt(r)
    \/ /\ Len(context[r]) = ContextWindow
       /\ \A i \in DOMAIN Rows(r) : Rows(r)[i] = context[r][1] =>
            \E j \in 1..(i - 1) : PromptAt(r, j)

\* A response is one JSON body, or one SSE stream that opens with `start` and
\* says at most once how it ended, after which nothing follows: neither a flag
\* flipped under way nor a provider that fails in the middle of its stream mixes
\* the two or adds a second ending.  (That a client reads nothing of what the
\* error handler writes after the end is Node's doing, see Write.)
WireWellFormed ==
  \A r \in Requests : \A i \in DOMAIN wire[r] :
    /\ wire[r][i] \in Terminal => i = Len(wire[r]) /\ ended[r]
    /\ wire[r][i] \in {"json", "refusal"} => i = 1
    /\ wire[r][i] = "start" <=> i = 1 /\ wire[r][1] \notin {"json", "refusal"}

Count(r, frame) == Cardinality({i \in DOMAIN wire[r] : wire[r][i] = frame})

\* What is stored is what was sent: the answer row of a stream has as many
\* chunks and tool calls as frames were written, and it is marked incomplete
\* exactly when the stream did not end in `done`.
StoredIsSent ==
  \A r \in Requests : \A i \in DOMAIN Rows(r) : AnswerAt(r, i) =>
    /\ ended[r]
    /\ Rows(r)[i].incomplete <=> ~Succeeded(r)
    /\ wire[r][1] = "start" =>
         /\ Rows(r)[i].text = Count(r, "token")
         /\ Rows(r)[i].tools = Count(r, "tool_execution")

\* Text the model produced is lost only for a reason the handler knows of: a
\* request that is over left its answer in the chat, or was rejected.
NoSilentLoss ==
  \A r \in Requests : pc[r] = "done" /\ text[r] > 0 => Gone(r) \/ errored[r] \/ Answered(r)

\* An error after the response was ended cannot be told to the client, one
\* before always is: a rejected request reads as a success only if its
\* response had been completed when persistence failed.
RefusalIsTold ==
  \A r \in Requests : pc[r] = "done" /\ errored[r] =>
    \/ wire[r] = <<"refusal">>
    \/ ended[r] /\ text[r] > 0 /\ wire[r] # <<>>

\* Once the handler has noticed the disconnect no chunk or tool call is added
\* to the answer, and at most one closing frame is written.
StopsAfterNotice ==
  [][\A r \in Requests : clientClosed[r] =>
        /\ text'[r] = text[r] /\ tools'[r] = tools[r]
        /\ wire'[r] \in {wire[r], Append(wire[r], "done"), Append(wire[r], "error")}]_vars

\* Every request that reached the handler gets a response that ends, whatever
\* the database and the provider answer and whoever hangs up.
EveryRequestEnds == \A r \in Requests : pc[r] = "find" ~> pc[r] = "done" /\ ended[r]

\* A success the client was told of becomes an answer in the chat that moved
\* the chat up in its owner's list, or the handler saw persistence fail, or
\* there was nothing to store.
SuccessIsStored ==
  \A r \in Requests : Succeeded(r) ~>
    \/ Gone(r) \/ errored[r] \/ text[r] = 0
    \/ Answered(r) /\ r \in bumped[Target[r]]

-----------------------------------------------------------------------------
(* What the repository says of the program, and the code does not do *)

\* completion-strategy.ts on CompletionResult.incomplete: "True if the
\* stream/response ended mid-way (client disconnect, AI error, ...)".
DisconnectIsMarked ==
  \A r \in Requests : \A i \in DOMAIN Rows(r) :
    AnswerAt(r, i) /\ left[r] => Rows(r)[i].incomplete

\* completion.service.ts: "Persist whatever we have, even if the stream ended
\* early".  A request no call of which failed keeps its tool calls too.
WhateverWeHaveIsKept ==
  \A r \in Requests :
    pc[r] = "done" /\ text[r] + tools[r] > 0 => Gone(r) \/ errored[r] \/ Answered(r)

-----------------------------------------------------------------------------
(* What a client may rely on: module Exchange, under this mapping *)

RecordOf(r) ==
  CASE Gone(r) -> "gone"
    [] ~Gone(r) /\ ~Answered(r) ->
         IF \E i \in DOMAIN Rows(r) : PromptAt(r, i) THEN "prompt" ELSE "none"
    [] ~Gone(r) /\ Answered(r) ->
         IF \E i \in DOMAIN Rows(r) : AnswerAt(r, i) /\ Rows(r)[i].incomplete
           THEN "partial" ELSE "complete"

ReplyOf(r) ==
  CASE ~ended[r] -> IF wire[r] = <<>> THEN "none" ELSE "open"
    [] Succeeded(r) -> "success"
    [] ended[r] /\ wire[r] = <<"refusal">> -> "refused"
    [] OTHER -> "broken"

Contract == INSTANCE Exchange WITH
  record <- [r \in Requests |-> RecordOf(r)],
  reply <- [r \in Requests |-> ReplyOf(r)]

\* The handlers, however they interleave and fail, keep the contract of
\* module Exchange between a request's response and what its chat remembers.
KeepsContract == Contract!Spec

=============================================================================
