------------------------------- MODULE Client --------------------------------
(***************************************************************************)
(* client/app.js: one page whose handlers run interleaved at their awaits. *)
(* Buttons are never disabled, so gestures overlap; answers of the server  *)
(* come in any order or not at all.  A handler is the list of the calls it *)
(* has still to make, of which the first is under way.                     *)
(***************************************************************************)
EXTENDS Naturals, Sequences, FiniteSets, TLC

CONSTANTS
  Handlers,   \* slots for handlers that run at once
  Chats,      \* ids the server can give to chats of the user
  NoChat,     \* state.activeChatId = null
  MaxGestures,\* bound: what the user does after opening the page
  MaxStarts,  \* bound: how often the server is started
  MaxVersion  \* bound: how often the flags are set, by a start or a PATCH

ASSUME ChatAssumption == NoChat \notin Chats
ASSUME BoundAssumption == {MaxGestures, MaxStarts, MaxVersion} \subseteq Nat \ {0}

VARIABLES
  (* the server *)
  starts,    \* how often it was started
  epoch,     \* its JWT_SECRET: tokens of another epoch are refused
  appCheck,  \* FIREBASE_APP_CHECK_ENABLED, for which the page has no token
  version,   \* the feature flags, which every PATCH and every start sets
  chats,     \* the user's chats
  (* the page *)
  jwt,       \* state.jwt: the epoch of the token, 0 for ''
  active,    \* state.activeChatId
  view,      \* setMainView: "no-chats", "no-active", "chat"
  list,      \* the chats in the sidebar
  screen,    \* the rows of els.messages, rows of a hidden list included
  flags,     \* state.flags: the version on screen, 0 for none
  handler,   \* the handlers
  gestures,  \* those the user made
  (* history of the properties *)
  said,      \* the rows appended since the chat on screen was selected
  crossed,   \* that selection, or a prompt, overlapped with another call
  learned,   \* the newest version of the flags in any answer so far
  deaf,      \* the last probe the server saw got no answer, or was before its start
  raced      \* when the page was last answered with flags, older ones were on their way

server == <<starts, epoch, appCheck, version, chats, deaf, raced>>
page == <<active, view, list, screen>>
shown == <<flags, learned>>
history == <<said, crossed>>
vars == <<server, jwt, page, shown, handler, gestures, history>>

\* The call is under way.
NoAnswer == [status |-> "none"]

NeedToken == {"list", "create", "history", "completion"}
Changing == {"patch", "create", "completion"}
OfFlags == {"health", "patch"}

\* A handler that makes these calls, the first of them at once.
Makes(calls, token, c) ==
  [todo |-> calls, step |-> "call", answer |-> NoAnswer,
   token |-> IF calls # <<>> /\ Head(calls) \in NeedToken THEN token ELSE 0,
   chat |-> c, drawn |-> FALSE, effects |-> 0]

Idle == Makes(<<>>, 0, NoChat)

Init ==
  /\ starts = 1 /\ epoch = 1 /\ appCheck \in BOOLEAN /\ version = 1 /\ chats \in SUBSET Chats
  /\ jwt = 0 /\ active = NoChat /\ view = "no-active" /\ list = {} /\ screen = {}
  /\ flags = 0 /\ learned = 0 /\ deaf = FALSE /\ raced = FALSE
  /\ \E opening \in Handlers :
       handler = [h \in Handlers |->
         IF h = opening THEN Makes(<<"health", "session", "list">>, 0, NoChat) ELSE Idle]
  /\ gestures = 0 /\ said = {} /\ crossed = FALSE

Busy(h) == handler[h].todo # <<>>
Call(h) == IF handler[h].step = "relogin" THEN "login" ELSE Head(handler[h].todo)
Awaits(h, calls) == Busy(h) /\ Head(handler[h].todo) \in calls

\* What follows in the same handler: the next call, with the token of then.
Goes(h, calls, token) ==
  [handler EXCEPT ![h] = Makes(calls, token, IF calls = <<>> THEN NoChat ELSE @.chat)]

\* Slip: no timer.
ToastsOnly(h) == [handler EXCEPT ![h] = Idle]

\* toast() sets a timer that probes the server after 1500 ms.
Toasts(h) == [handler EXCEPT ![h] = [Makes(<<"health">>, 0, NoChat) EXCEPT !.step = "wait"]]

\* A row that was loaded, or appended by this page
Row(c, loaded) == [chat |-> c, loaded |-> loaded]

\* appendMessage, for what is drawn after a selection
Draw(row) == screen' = screen \cup {row} /\ said' = said \cup {row}

-----------------------------------------------------------------------------
(* The server, and the network between *)

Authorized(h) == ~appCheck /\ handler[h].token = epoch

Refused(h) == Call(h) \in NeedToken /\ ~Authorized(h)

\* What a call does and what it is told.
Executed(h) ==
  CASE Call(h) = "patch"  -> version < MaxVersion /\ version' = version + 1 /\ UNCHANGED chats
    [] Call(h) = "create" -> /\ UNCHANGED version
                             /\ \E c \in Chats \ chats : chats' = chats \cup {c}
    [] OTHER              -> UNCHANGED <<version, chats>>

Body(h) ==
  CASE Call(h) \in {"login", "session"} -> epoch
    [] Call(h) \in OfFlags              -> version'
    [] Call(h) = "list"                 -> chats
    [] Call(h) = "create"               -> CHOOSE c \in chats' : c \notin chats
    [] OTHER                            -> handler[h].chat

\* The answer that h has yet to look at tells the flags.
BringsFlags(h) ==
  Busy(h) /\ Call(h) \in OfFlags /\ handler[h].answer.status = "ok"

\* 401 is answered before a call has any effect; a wrong admin token, too, is
\* answered with 401.  Otherwise the call is executed, or fails, or is
\* executed and its answer lost.
Serve(h) ==
  /\ Busy(h) /\ handler[h].step \notin {"wait", "stream"}
  /\ handler[h].answer = NoAnswer
  /\ \/ /\ Refused(h) \/ Call(h) = "patch"
        /\ UNCHANGED <<version, chats>>
        /\ handler' = [handler EXCEPT ![h].answer = [status |-> "401"]]
     \/ /\ ~Refused(h)
        /\ Executed(h)
        /\ \E answer \in {[status |-> "ok", body |-> Body(h)], [status |-> "error"]} :
             handler' = [handler EXCEPT ![h].answer = answer,
                                        ![h].effects = @ + IF Call(h) \in Changing THEN 1 ELSE 0]
     \/ /\ UNCHANGED <<version, chats>>
        /\ handler' = [handler EXCEPT ![h].answer = [status |-> "error"]]
  /\ deaf' = IF Call(h) = "health" THEN handler'[h].answer.status # "ok" ELSE deaf
  /\ raced' = IF BringsFlags(h)'
                 THEN \E o \in Handlers : BringsFlags(o) /\ handler[o].answer.body # version'
                 ELSE raced
  /\ UNCHANGED <<starts, epoch, appCheck, jwt, page, shown, history>>

\* The server restarts, with the secret it had or another, and its flags are those
\* of the environment again.  With the same secret this is also what the page
\* sees of a PATCH that someone else sends.
Restart ==
  /\ starts < MaxStarts /\ starts' = starts + 1
  /\ version < MaxVersion /\ version' = version + 1
  /\ epoch' \in {epoch, epoch + 1}
  /\ deaf' = TRUE
  /\ UNCHANGED <<appCheck, chats, raced, jwt, page, shown, handler, history>>

-----------------------------------------------------------------------------
(* jsonReq: a 401 drops the token, logs in and replays the call once *)

\* Slips: any failure is replayed; the replay is replayed.
NeedsLoginAlways(h) ==
  /\ handler[h].answer.status # "ok" /\ handler[h].step = "call"
  /\ Call(h) \notin {"login", "session", "completion"}
NeedsLoginAgain(h) ==
  /\ handler[h].answer.status = "401"
  /\ handler[h].step \in {"call", "replay"} /\ Call(h) \notin {"login", "session", "completion"}

\* The login is exempt, and runCompletion does not go through jsonReq.
NeedsLogin(h) ==
  /\ handler[h].answer.status = "401" /\ handler[h].step = "call"
  /\ Call(h) \notin {"login", "session", "completion"}

Answered(h) == Busy(h) /\ handler[h].answer # NoAnswer

Relogin(h) ==
  /\ Answered(h) /\ NeedsLogin(h)
  /\ jwt' = 0
  /\ handler' = [handler EXCEPT ![h].step = "relogin", ![h].answer = NoAnswer]
  /\ UNCHANGED <<server, page, shown, history>>

Ok(h) == handler[h].answer.status = "ok"

\* ensureSession keeps what there is when the login fails.
TakesToken(h) == jwt' = IF Ok(h) THEN handler[h].answer.body ELSE jwt

\* Without a token the call is replayed with the header it had.
Replay(h) ==
  /\ Answered(h) /\ handler[h].step = "relogin"
  /\ TakesToken(h)
  /\ handler' = [handler EXCEPT ![h].step = "replay", ![h].answer = NoAnswer,
                                ![h].token = IF jwt' # 0 /\ Head(handler[h].todo) \in NeedToken
                                               THEN jwt' ELSE @]
  /\ UNCHANGED <<server, page, shown, history>>

\* The answer that jsonReq or fetch hands to the handler
Returns(h, call) ==
  /\ Answered(h) /\ handler[h].step \notin {"relogin", "stream"} /\ ~NeedsLogin(h)
  /\ Head(handler[h].todo) = call

-----------------------------------------------------------------------------
(* What the handlers do with their answers *)

\* loadChats empties the sidebar while it waits.
MayLoad(calls) == list' = IF calls # <<>> /\ Head(calls) = "list" THEN {} ELSE list

\* ensureSession of the connect button, and of the startup, which goes on only
\* with a token.
LoggedIn(h) ==
  /\ Returns(h, "login") \/ Returns(h, "session")
  /\ TakesToken(h)
  /\ LET next == IF Call(h) = "session" /\ jwt' = 0 THEN <<>> ELSE Tail(handler[h].todo)
     IN  MayLoad(next) /\ handler' = Goes(h, next, jwt')
  /\ UNCHANGED <<server, active, view, screen, shown, history>>

Later(m, n) == IF m > n THEN m ELSE n

Shows(answered) == flags' = answered /\ learned' = Later(learned, answered)

\* refreshHealth; the startup logs in only if nobody has.
Probed(h) ==
  /\ Returns(h, "health")
  /\ IF Ok(h) THEN Shows(handler[h].answer.body) ELSE UNCHANGED <<flags, learned>>
  /\ LET rest == Tail(handler[h].todo)
         next == IF rest # <<>> /\ Head(rest) = "session" /\ jwt # 0 THEN Tail(rest) ELSE rest
     IN  MayLoad(next) /\ handler' = Goes(h, next, jwt)
  /\ UNCHANGED <<server, jwt, active, view, screen, history>>

\* patchFlag
Patched(h) ==
  /\ Returns(h, "patch")
  /\ IF Ok(h) THEN Shows(handler[h].answer.body) ELSE UNCHANGED <<flags, learned>>
  /\ handler' = Toasts(h)
  /\ UNCHANGED <<server, jwt, page, history>>

\* createChat, until it loads the list
Created(h) ==
  /\ Returns(h, "create")
  /\ IF Ok(h)
       THEN /\ handler' = [Goes(h, <<"list", "history">>, jwt) EXCEPT
                             ![h].chat = handler[h].answer.body]
            /\ list' = {}
       ELSE handler' = Toasts(h) /\ UNCHANGED list
  /\ UNCHANGED <<server, jwt, active, view, screen, shown, history>>

\* Slip: the rows of the last chat stay until the history is there.
SelectChatKeeps(h, c) ==
  /\ active' = c /\ view' = "chat" /\ UNCHANGED screen /\ said' = {}
  /\ crossed' = \E o \in Handlers \ {h} : Awaits(o, {"history", "completion"})

\* selectChat, until it awaits the history
SelectChat(h, c) ==
  /\ active' = c /\ view' = "chat" /\ screen' = {} /\ said' = {}
  /\ crossed' = \E o \in Handlers \ {h} : Awaits(o, {"history", "completion"})

\* Slip: the empty list forgets the active chat only in the sidebar.
ListedKeepsActive(l) ==
  IF l = {} THEN view' = "no-chats" /\ UNCHANGED active
            ELSE view' = (IF active = NoChat THEN "no-active" ELSE view) /\ UNCHANGED active

\* loadChats with an answer
Listed(l) ==
  IF l = {} THEN view' = "no-chats" /\ active' = NoChat
            ELSE view' = (IF active = NoChat THEN "no-active" ELSE view) /\ UNCHANGED active

\* The end of loadChats; createChat then selects the new chat.
Loaded(h) ==
  /\ Returns(h, "list")
  /\ list' = IF Ok(h) THEN handler[h].answer.body ELSE {}
  /\ handler' = Goes(h, Tail(handler[h].todo), jwt)
  /\ IF Tail(handler[h].todo) = <<"history">>
       THEN SelectChat(h, handler[h].chat)
       ELSE /\ IF Ok(h) THEN Listed(list') ELSE UNCHANGED <<active, view>>
            /\ UNCHANGED <<screen, history>>
  /\ UNCHANGED <<server, jwt, shown>>

\* The end of selectChat: whatever the list of messages holds is replaced.
HistoryLoaded(h) ==
  /\ Returns(h, "history")
  /\ screen' = IF Ok(h) THEN {Row(handler[h].chat, TRUE)} ELSE {}
  /\ handler' = Goes(h, <<>>, jwt)
  /\ UNCHANGED <<server, jwt, active, view, list, shown, history>>

\* runCompletion: a call that is refused draws the error, one that never
\* arrives rejects and draws nothing, an answer comes whole or as a stream.
Completed(h) ==
  /\ Returns(h, "completion")
  /\ \/ /\ Draw(Row(handler[h].chat, FALSE))
        /\ handler' = Goes(h, <<>>, jwt)
     \/ /\ ~Ok(h) /\ handler[h].answer.status # "401"
        /\ handler' = Goes(h, <<>>, jwt)
        /\ UNCHANGED <<screen, said>>
     \/ /\ Ok(h)
        /\ handler' = [handler EXCEPT ![h].step = "stream"]
        /\ UNCHANGED <<screen, said>>
  /\ UNCHANGED <<server, jwt, active, view, list, shown, crossed>>

Streams(h) == Busy(h) /\ handler[h].step = "stream"

\* consumeSse: the first token draws a row, which later ones extend wherever it
\* is by then; a tool or an error frame always draws one.
Frame(h) ==
  /\ Streams(h)
  /\ \E token \in BOOLEAN :
       /\ token => ~handler[h].drawn
       /\ handler' = [handler EXCEPT ![h].drawn = @ \/ token]
       /\ Draw(Row(handler[h].chat, FALSE))
  /\ UNCHANGED <<server, jwt, active, view, list, shown, crossed>>

EndStream(h) ==
  /\ Streams(h)
  /\ handler' = Goes(h, <<>>, jwt)
  /\ UNCHANGED <<server, jwt, page, shown, history>>

Timer(h) ==
  /\ Busy(h) /\ handler[h].step = "wait"
  /\ handler' = [handler EXCEPT ![h].step = "call"]
  /\ UNCHANGED <<server, jwt, page, shown, history>>

-----------------------------------------------------------------------------
(* Gestures of the user; each starts a handler in a free slot *)

Starts(h, calls, token, c) ==
  /\ ~Busy(h)
  /\ handler' = [handler EXCEPT ![h] = Makes(calls, token, c)]

Connect(h) ==
  /\ Starts(h, <<"login", "health", "list">>, 0, NoChat)
  /\ jwt' = 0
  /\ UNCHANGED <<server, page, shown, history>>

RefreshChats(h) ==
  /\ Starts(h, <<"list">>, jwt, NoChat)
  /\ list' = {}
  /\ UNCHANGED <<server, jwt, active, view, screen, shown, history>>

NewChat(h) ==
  /\ Starts(h, <<"create">>, jwt, NoChat)
  /\ UNCHANGED <<server, jwt, page, shown, history>>

PickChat(h, c) ==
  /\ c \in list
  /\ Starts(h, <<"history">>, jwt, c)
  /\ SelectChat(h, c)
  /\ UNCHANGED <<server, jwt, list, shown>>

\* The composer is there in the view of a chat only.
Submit(h) ==
  /\ view = "chat"
  /\ IF active = NoChat
       THEN /\ ~Busy(h) /\ handler' = Toasts(h)
            /\ UNCHANGED <<screen, history>>
       ELSE /\ Starts(h, <<"completion">>, jwt, active)
            /\ Draw(Row(active, FALSE))
            /\ crossed' = (crossed \/ \E o \in Handlers : Awaits(o, {"history"}))
  /\ UNCHANGED <<server, jwt, active, view, list, shown>>

PatchFlag(h) ==
  /\ flags # 0
  /\ Starts(h, <<"patch">>, jwt, NoChat)
  /\ UNCHANGED <<server, jwt, page, shown, history>>

Gesture(h) ==
  \/ Connect(h) \/ RefreshChats(h) \/ NewChat(h) \/ Submit(h) \/ PatchFlag(h)
  \/ \E c \in list : PickChat(h, c)

\* What the page does as soon as it can
Runs(h) ==
  \/ Relogin(h) \/ Replay(h) \/ LoggedIn(h) \/ Probed(h) \/ Patched(h) \/ Created(h)
  \/ Loaded(h) \/ HistoryLoaded(h) \/ Completed(h) \/ Timer(h)

Next ==
  \/ \E h \in Handlers :
       \/ /\ Runs(h) \/ Serve(h) \/ Frame(h) \/ EndStream(h)
          /\ UNCHANGED gestures
       \/ /\ gestures < MaxGestures
          /\ Gesture(h)
          /\ gestures' = gestures + 1
  \/ Restart /\ UNCHANGED gestures

Spec == Init /\ [][Next]_vars

\* Ids of chats are alike, and so are slots for handlers.
Alike == Permutations(Chats) \cup Permutations(Handlers)

-----------------------------------------------------------------------------
(* Properties *)

\* The composer is there exactly when a prompt would go somewhere.
ComposerHasChat == view = "chat" <=> active # NoChat

\* Unless the selection of the chat on screen, or a prompt, overlapped with
\* another call, every row on screen belongs to that chat and every prompt and
\* answer since the selection is there.
ScreenIsActive ==
  view = "chat" /\ ~crossed =>
    /\ \A row \in screen : row.chat = active
    /\ said \subseteq screen

\* One gesture changes the server once at most, however often it is replayed.
EffectsOnce == \A h \in Handlers : handler[h].effects <= 1

\* No call that brings flags is under way or to come.
Settled ==
  \A h \in Handlers : \A i \in DOMAIN handler[h].todo : handler[h].todo[i] \notin OfFlags

\* When no probe and no PATCH is under way, and the last probe that the server saw
\* was answered and came after its last start, the page has been told the flags of
\* now, lost answers to PATCH included.  It shows them, too, unless older flags were
\* still on their way when it was last answered, and may have arrived after.
FlagsAreLearned ==
  ~deaf /\ Settled => learned = version /\ (~raced => flags = version)

\* What is left to do for a handler: the calls, the tries of the call, its answer.
CallsLeft(todo) ==
  Len(todo) + IF todo # <<>> /\ Head(todo) \in {"create", "patch"} THEN 2 ELSE 0
Tries == [wait |-> 4, call |-> 3, relogin |-> 2, replay |-> 1, stream |-> 0]
Left(r) ==
  10 * CallsLeft(r.todo) + 2 * Tries[r.step] + IF r.answer = NoAnswer THEN 1 ELSE 0

\* No handler ever goes back, however often it is answered 401: there is no
\* login loop, and a gesture whose calls are answered comes to its end.
Advances ==
  [][\A h \in Handlers :
       Busy(h) => \/ Left(handler'[h]) < Left(handler[h])
                  \/ handler'[h] \in {handler[h], [handler[h] EXCEPT !.drawn = TRUE]}]_vars

=============================================================================
