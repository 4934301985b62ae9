-------------------------- MODULE CompletionProofs --------------------------
(***************************************************************************)
(* Theorems about Completion for any number of requests, chats and users,  *)
(* either provider and every bound: what is stored, what the model is      *)
(* asked with, what the client is told, that both agree, and that the      *)
(* completion path implements Exchange.                                    *)
(***************************************************************************)
EXTENDS Completion, FiniteSetTheorems, TLAPS

USE DEF dbVars, settings, answerVars, resVars

-----------------------------------------------------------------------------
(* Types *)

LEMMA NewestType ==
  ASSUME NEW S, NEW rows \in Seq(S), NEW n \in Nat \ {0}
  PROVE  Newest(rows, n) \in Seq(S)
BY DEF Newest

LEMMA RowTypes ==
  ASSUME TypeOK, NEW r \in Requests
  PROVE  Prompt(r) \in Row /\ Answer(r) \in Row
BY DEF TypeOK, Prompt, Answer, Row

\* An insert touches no chat but the target, and there only appends.
LEMMA InsertType ==
  ASSUME TypeOK, NEW r \in Requests, NEW row \in Row, NEW next \in Control,
         Insert(r, row, next)
  PROVE  /\ log' \in [Chats -> Seq(Row)]
         /\ pc' \in [Requests -> Control]
         /\ errored' \in [Requests -> BOOLEAN]
<1> "failed" \in Control BY DEF Control
<1> Target[r] \in Chats BY TargetAssumption
<1>1. Append(log[Target[r]], row) \in Seq(Row) BY DEF TypeOK
<1>2. [log EXCEPT ![Target[r]] = Append(@, row)] \in [Chats -> Seq(Row)]
  BY <1>1 DEF TypeOK
<1>3. log' \in [Chats -> Seq(Row)] BY <1>2 DEF TypeOK, Insert
<1>4. /\ pc' = [pc EXCEPT ![r] = next] \/ pc' = [pc EXCEPT ![r] = "failed"]
      /\ errored' = errored \/ errored' = [errored EXCEPT ![r] = TRUE]
  BY DEF Insert, Goto, Reject
<1>5. pc' \in [Requests -> Control] BY <1>4 DEF TypeOK
<1>6. errored' \in [Requests -> BOOLEAN] BY <1>4 DEF TypeOK
<1>7. QED BY <1>3, <1>5, <1>6

LEMMA TypeInit == Init => TypeOK
BY DEF Init, TypeOK, Control, Row, Frame

LEMMA TypeStep == TypeOK /\ [Next]_vars => TypeOK'
<1> SUFFICES ASSUME TypeOK, [Next]_vars PROVE TypeOK' OBVIOUS
<1>0. ASSUME NEW r \in Requests, Arrive(r) PROVE TypeOK'
  BY <1>0 DEF Arrive, Goto, TypeOK, Control
<1>1. ASSUME NEW r \in Requests, FindChat(r) PROVE TypeOK'
  BY <1>1 DEF FindChat, Goto, Reject, TypeOK, Control
<1>2. ASSUME NEW r \in Requests, SaveUser(r) PROVE TypeOK'
  <2> "readContext" \in Control BY DEF Control
  <2> QED BY <1>2, InsertType, RowTypes DEF SaveUser, TypeOK
<1>3. ASSUME NEW r \in Requests, ReadContext(r) PROVE TypeOK'
  <2> Newest(log[Target[r]], ContextWindow) \in Seq(Row)
    BY NewestType, TargetAssumption, BoundAssumption DEF TypeOK
  <2>1. context' \in [Requests -> Seq(Row)]
    BY <1>3 DEF ReadContext, TypeOK
  <2>2. pc' \in [Requests -> Control] /\ errored' \in [Requests -> BOOLEAN]
    BY <1>3 DEF ReadContext, Goto, Reject, TypeOK, Control
  <2>3. QED BY <1>3, <2>1, <2>2 DEF ReadContext, TypeOK
<1>4. ASSUME NEW r \in Requests, Resolve(r) PROVE TypeOK'
  <2> <<"start">> \in Seq(Frame) /\ <<>> \in Seq(Row) BY DEF Frame
  <2>1. wire' \in [Requests -> Seq(Frame)] /\ pc' \in [Requests -> Control]
    BY <1>4 DEF Resolve, Goto, TypeOK, Control
  <2>2. context' \in [Requests -> Seq(Row)] BY <1>4 DEF Resolve, TypeOK
  <2>3. offered' \in [Requests -> BOOLEAN] BY <1>4 DEF Resolve, TypeOK
  <2>4. QED BY <1>4, <2>1, <2>2, <2>3 DEF Resolve, TypeOK
<1>5. ASSUME NEW r \in Requests, StreamText(r) PROVE TypeOK'
  BY <1>5 DEF StreamText, Send, TypeOK, Frame
<1>6. ASSUME NEW r \in Requests, StreamTool(r) PROVE TypeOK'
  BY <1>6 DEF StreamTool, Send, TypeOK, Frame
<1>7. ASSUME NEW r \in Requests, StreamAbandon(r) PROVE TypeOK'
  BY <1>7 DEF StreamAbandon, End, Settle, Goto, TypeOK, Control
<1>8. ASSUME NEW r \in Requests, StreamDone(r) PROVE TypeOK'
  BY <1>8 DEF StreamDone, Send, End, Settle, Goto, TypeOK, Control, Frame, Terminal
<1>9. ASSUME NEW r \in Requests, StreamError(r) PROVE TypeOK'
  BY <1>9 DEF StreamError, Send, End, Settle, Goto, TypeOK, Control, Frame, Terminal
<1>10. ASSUME NEW r \in Requests, JsonAnswer(r) PROVE TypeOK'
  BY <1>10, BoundAssumption DEF JsonAnswer, Send, End, Settle, Goto, TypeOK, Control, Frame, Terminal
<1>11. ASSUME NEW r \in Requests, JsonError(r) PROVE TypeOK'
  BY <1>11 DEF JsonError, Reject, Goto, TypeOK, Control
<1>12. ASSUME NEW r \in Requests, SaveAnswer(r) PROVE TypeOK'
  <2> "touch" \in Control BY DEF Control
  <2> QED BY <1>12, InsertType, RowTypes DEF SaveAnswer, TypeOK
<1>13. ASSUME NEW r \in Requests, Touch(r) PROVE TypeOK'
  <2>1. bumped' \in [Chats -> SUBSET Requests]
    BY <1>13, TargetAssumption DEF Touch, TypeOK
  <2>2. pc' \in [Requests -> Control] /\ errored' \in [Requests -> BOOLEAN]
    BY <1>13 DEF Touch, Goto, Reject, TypeOK, Control
  <2>3. QED BY <1>13, <2>1, <2>2 DEF Touch, TypeOK
<1>14. ASSUME NEW r \in Requests, ErrorHandler(r) PROVE TypeOK'
  <2>1. "error" \in Frame /\ "refusal" \in Frame BY DEF Frame, Terminal
  <2>2. wire' \in [Requests -> Seq(Frame)]
    <3>1. \A f \in Frame : Send(r, f) => wire' \in [Requests -> Seq(Frame)]
      BY DEF Send, TypeOK
    <3>2. UNCHANGED wire \/ Send(r, "error") \/ Send(r, "refusal")
      BY <1>14 DEF ErrorHandler, Write
    <3>3. QED BY <2>1, <3>1, <3>2 DEF TypeOK
  <2>3. QED BY <1>14, <2>2 DEF ErrorHandler, Write, End, Goto, TypeOK, Control
<1>15. ASSUME NEW r \in Requests, Disconnect(r) PROVE TypeOK'
  BY <1>15 DEF Disconnect, TypeOK
<1>16. ASSUME FlipStreaming \/ FlipTools PROVE TypeOK'
  BY <1>16 DEF FlipStreaming, FlipTools, TypeOK
<1>17. ASSUME NEW c \in Chats, DeleteChat(c) PROVE TypeOK'
  BY <1>17 DEF DeleteChat, TypeOK
<1>18. CASE UNCHANGED vars
  BY <1>18 DEF vars, TypeOK
<1>19. QED
  BY <1>0, <1>1, <1>2, <1>3, <1>4, <1>5, <1>6, <1>7, <1>8, <1>9, <1>10, <1>11,
     <1>12, <1>13, <1>14, <1>15, <1>16, <1>17, <1>18 DEF Next, Handler

\* Type correctness of every variable of the completion path.
THEOREM TypeCorrect == Spec => []TypeOK
BY TypeInit, TypeStep, PTL DEF Spec

-----------------------------------------------------------------------------
(* What one step may do to control, to the chats and to a response *)

Edge(a, b) ==
  \/ a = "idle" /\ b = "find"
  \/ a = "find" /\ b \in {"saveUser", "failed"}
  \/ a = "saveUser" /\ b \in {"readContext", "failed"}
  \/ a = "readContext" /\ b \in {"resolve", "failed"}
  \/ a = "resolve" /\ b \in {"stream", "json"}
  \/ a \in {"stream", "json"} /\ b \in {"saveAnswer", "done"}
  \/ a = "json" /\ b = "failed"
  \/ a = "saveAnswer" /\ b \in {"touch", "failed"}
  \/ a = "touch" /\ b \in {"done", "failed"}
  \/ a = "failed" /\ b = "done"

LEMMA Moves ==
  ASSUME TypeOK, [Next]_vars, NEW q \in Requests
  PROVE  pc'[q] = pc[q] \/ Edge(pc[q], pc'[q])
<1> USE DEF Goto, Reject, TypeOK, Edge
<1>1. ASSUME NEW r \in Requests, Arrive(r) \/ FindChat(r) \/ ReadContext(r) \/ Resolve(r)
      PROVE  pc'[q] = pc[q] \/ Edge(pc[q], pc'[q])
  BY <1>1 DEF Arrive, FindChat, ReadContext, Resolve
<1>2. ASSUME NEW r \in Requests, SaveUser(r) \/ SaveAnswer(r) \/ Touch(r)
      PROVE  pc'[q] = pc[q] \/ Edge(pc[q], pc'[q])
  BY <1>2 DEF SaveUser, SaveAnswer, Touch, Insert
<1>3. ASSUME NEW r \in Requests,
             StreamText(r) \/ StreamTool(r) \/ StreamAbandon(r) \/ StreamDone(r) \/ StreamError(r)
      PROVE  pc'[q] = pc[q] \/ Edge(pc[q], pc'[q])
  BY <1>3 DEF StreamText, StreamTool, StreamAbandon, StreamDone, StreamError, Settle
<1>4. ASSUME NEW r \in Requests, JsonAnswer(r) \/ JsonError(r) \/ ErrorHandler(r)
      PROVE  pc'[q] = pc[q] \/ Edge(pc[q], pc'[q])
  BY <1>4 DEF JsonAnswer, JsonError, ErrorHandler, Write, Settle
<1>5. ASSUME \/ \E r \in Requests : Disconnect(r)
             \/ FlipStreaming \/ FlipTools
             \/ \E c \in Chats : DeleteChat(c)
             \/ UNCHANGED vars
      PROVE  pc'[q] = pc[q] \/ Edge(pc[q], pc'[q])
  BY <1>5 DEF Disconnect, FlipStreaming, FlipTools, DeleteChat, vars
<1>6. QED BY <1>1, <1>2, <1>3, <1>4, <1>5 DEF Next, Handler

\* r inserts the row, at the point of its handler where it does so.
Inserts(r, at, row) ==
  /\ pc[r] = at /\ pc'[r] # at
  /\ \A q \in Requests \ {r} : pc'[q] = pc[q]
  /\ Target[r] \in chats /\ chats' = chats
  /\ log' = [log EXCEPT ![Target[r]] = Append(@, row)]

Deletes(c) ==
  /\ pc' = pc
  /\ chats' = chats \ {c}
  /\ log' = [log EXCEPT ![c] = <<>>]

\* No handler moves past an insert in this step.
NoInsert ==
  /\ UNCHANGED <<chats, log>>
  /\ \A q \in Requests :
       /\ pc[q] = "saveUser" => pc'[q] # "readContext"
       /\ pc[q] = "saveAnswer" => pc'[q] # "touch"

LEMMA LogMoves ==
  ASSUME TypeOK, [Next]_vars
  PROVE  \/ NoInsert
         \/ \E r \in Requests : Inserts(r, "saveUser", Prompt(r))
         \/ \E r \in Requests : Inserts(r, "saveAnswer", Answer(r))
         \/ \E c \in Chats : Deletes(c)
<1> DEFINE Goal == \/ NoInsert
                   \/ \E r \in Requests : Inserts(r, "saveUser", Prompt(r))
                   \/ \E r \in Requests : Inserts(r, "saveAnswer", Answer(r))
                   \/ \E c \in Chats : Deletes(c)
<1> USE DEF Goto, Reject, TypeOK
<1>1. ASSUME NEW r \in Requests, SaveUser(r) PROVE Goal
  <2>1. CASE log' = [log EXCEPT ![Target[r]] = Append(@, Prompt(r))] /\ Target[r] \in chats
    <3>1. Inserts(r, "saveUser", Prompt(r)) BY <1>1, <2>1 DEF SaveUser, Insert, Inserts
    <3>2. QED BY <3>1
  <2>2. CASE Reject(r) /\ UNCHANGED log
    BY <1>1, <2>2 DEF SaveUser, NoInsert
  <2>3. QED BY <1>1, <2>1, <2>2 DEF SaveUser, Insert
<1>2. ASSUME NEW r \in Requests, SaveAnswer(r) PROVE Goal
  <2>1. CASE log' = [log EXCEPT ![Target[r]] = Append(@, Answer(r))] /\ Target[r] \in chats
    <3>1. Inserts(r, "saveAnswer", Answer(r)) BY <1>2, <2>1 DEF SaveAnswer, Insert, Inserts
    <3>2. QED BY <3>1
  <2>2. CASE Reject(r) /\ UNCHANGED log
    BY <1>2, <2>2 DEF SaveAnswer, NoInsert
  <2>3. QED BY <1>2, <2>1, <2>2 DEF SaveAnswer, Insert
<1>3. ASSUME NEW c \in Chats, DeleteChat(c) PROVE Goal
  <2>1. Deletes(c) BY <1>3 DEF DeleteChat, Deletes
  <2>2. QED BY <2>1
<1>4. ASSUME NEW r \in Requests,
             \/ Arrive(r) \/ FindChat(r) \/ ReadContext(r) \/ Resolve(r)
             \/ Touch(r) \/ ErrorHandler(r) \/ Disconnect(r)
      PROVE  NoInsert
  BY <1>4 DEF Arrive, FindChat, ReadContext, Resolve, Touch, ErrorHandler, Write, Disconnect, NoInsert
<1>5. ASSUME NEW r \in Requests,
             \/ StreamText(r) \/ StreamTool(r) \/ StreamAbandon(r) \/ StreamDone(r)
             \/ StreamError(r) \/ JsonAnswer(r) \/ JsonError(r)
      PROVE  NoInsert
  BY <1>5 DEF StreamText, StreamTool, StreamAbandon, StreamDone, StreamError,
              JsonAnswer, JsonError, Settle, NoInsert
<1>6. ASSUME FlipStreaming \/ FlipTools \/ UNCHANGED vars PROVE NoInsert
  BY <1>6 DEF FlipStreaming, FlipTools, vars, NoInsert
<1>7. QED BY <1>1, <1>2, <1>3, <1>4, <1>5, <1>6 DEF Next, Handler

\* A response becomes a success only while its strategy runs.
LEMMA SuccessMoves ==
  ASSUME TypeOK, [Next]_vars, NEW q \in Requests, Succeeded(q)'
  PROVE  Succeeded(q) \/ pc[q] \in {"stream", "json"}
<1> USE DEF Succeeded, LastFrame
<1>1. ASSUME NEW r \in Requests,
             \/ Arrive(r) \/ FindChat(r) \/ SaveUser(r) \/ ReadContext(r)
             \/ SaveAnswer(r) \/ Touch(r) \/ JsonError(r) \/ Disconnect(r)
      PROVE  UNCHANGED <<wire, ended>>
  BY <1>1 DEF Arrive, FindChat, SaveUser, ReadContext, SaveAnswer, Touch, JsonError, Disconnect
<1>2. ASSUME FlipStreaming \/ FlipTools \/ (\E c \in Chats : DeleteChat(c)) \/ UNCHANGED vars
      PROVE  UNCHANGED <<wire, ended>>
  BY <1>2 DEF FlipStreaming, FlipTools, DeleteChat, vars
<1>3. ASSUME UNCHANGED <<wire, ended>> PROVE Succeeded(q)
  BY <1>3
<1>4. ASSUME NEW r \in Requests, Resolve(r) PROVE Succeeded(q)
  <2>1. ended' = ended BY <1>4 DEF Resolve
  <2>2. wire'[q] = wire[q] \/ wire'[q] = <<"start">> BY <1>4 DEF Resolve, TypeOK
  <2>3. QED BY <2>1, <2>2
<1>5. ASSUME NEW r \in Requests,
             \/ StreamText(r) \/ StreamTool(r) \/ StreamAbandon(r) \/ StreamDone(r)
             \/ StreamError(r) \/ JsonAnswer(r)
      PROVE  pc[q] \in {"stream", "json"} \/ Succeeded(q)
  <2>1. CASE q = r
    BY <1>5, <2>1 DEF StreamText, StreamTool, StreamAbandon, StreamDone, StreamError, JsonAnswer
  <2>2. CASE q # r
    <3>1. wire'[q] = wire[q] /\ ended'[q] = ended[q]
      BY <1>5, <2>2 DEF StreamText, StreamTool, StreamAbandon, StreamDone, StreamError,
                        JsonAnswer, Send, End, TypeOK
    <3>2. QED BY <3>1
  <2>3. QED BY <2>1, <2>2
<1>6. ASSUME NEW r \in Requests, ErrorHandler(r) PROVE Succeeded(q)
  <2>1. CASE q # r \/ ended[r]
    <3>1. wire'[q] = wire[q] /\ (ended'[q] = ended[q] \/ ended[q])
      BY <1>6, <2>1 DEF ErrorHandler, Write, Send, End, TypeOK
    <3>2. QED BY <3>1 DEF TypeOK
  <2>2. CASE q = r /\ ~ended[r]
    <3>1. \A f : Send(r, f) => wire'[q] = Append(wire[q], f) /\ wire[q] \in Seq(Frame)
      BY <2>2 DEF Send, TypeOK
    <3>2. Send(r, "error") \/ Send(r, "refusal") BY <1>6, <2>2 DEF ErrorHandler, Write
    <3>3. LastFrame(q)' \in {"error", "refusal"} BY <3>1, <3>2
    <3>4. QED BY <3>3
  <2>3. QED BY <2>1, <2>2 DEF TypeOK
<1>7. QED BY <1>1, <1>2, <1>3, <1>4, <1>5, <1>6 DEF Next, Handler

-----------------------------------------------------------------------------
(***************************************************************************)
(* The inductive invariant.  The properties of Completion about stored     *)
(* rows are not inductive: they say nothing of a handler that is about to  *)
(* insert.  What must be added is what each handler has already stored at  *)
(* each of its awaits, and that it got past findById.                      *)
(***************************************************************************)

BeforePrompt == {"idle", "find", "saveUser"}
BeforeAnswer == {"readContext", "resolve", "stream", "json", "saveAnswer"}

Stored(r) == pc[r] \in BeforeAnswer \cup {"touch"} \/ Succeeded(r)

\* Only a caller who owns the chat gets past findById.
Admission ==
  \A r \in Requests :
    pc[r] \in {"saveUser"} \cup BeforeAnswer => Caller[r] = Owner[Target[r]]

RowsAtHome ==
  \A c \in Chats : \A i \in DOMAIN log[c] :
    /\ log[c][i].from \in Requests
    /\ Target[log[c][i].from] = c
    /\ Caller[log[c][i].from] = Owner[c]

ContextAtHome ==
  \A r \in Requests : \A i \in DOMAIN context[r] :
    /\ Target[context[r][i].from] = Target[r]
    /\ Caller[context[r][i].from] = Caller[r]

PromptRows ==
  \A c \in Chats : \A i \in DOMAIN log[c] :
    log[c][i].role = "USER" => log[c][i] = Prompt(log[c][i].from)

NothingBeforePrompt ==
  \A r \in Requests : pc[r] \in BeforePrompt =>
    \A c \in Chats : \A i \in DOMAIN log[c] : log[c][i].from # r

NoAnswerBeforeSave ==
  \A r \in Requests : pc[r] \in BeforeAnswer =>
    \A c \in Chats : \A i \in DOMAIN log[c] : log[c][i].from = r => log[c][i].role = "USER"

PromptKept ==
  \A r \in Requests : Stored(r) => Gone(r) \/ \E i \in DOMAIN Rows(r) : PromptAt(r, i)

IInv ==
  /\ TypeOK
  /\ Admission /\ RowsAtHome /\ ContextAtHome
  /\ PromptRows /\ NothingBeforePrompt /\ NoAnswerBeforeSave
  /\ PromptKept /\ AnswerFollowsPrompt

LEMMA IInvInit == Init => IInv
<1> SUFFICES ASSUME Init PROVE IInv OBVIOUS
<1>1. TypeOK BY TypeInit
<1>2. \A r \in Requests : pc[r] = "idle" /\ context[r] = <<>> /\ ~Succeeded(r)
  BY DEF Init, Succeeded
<1>3. \A c \in Chats : DOMAIN log[c] = {} BY DEF Init
<1>4. QED
  BY <1>1, <1>2, <1>3 DEF IInv, Admission, RowsAtHome, ContextAtHome, PromptRows,
     NothingBeforePrompt, NoAnswerBeforeSave, PromptKept, Stored, AnswerFollowsPrompt,
     BeforeAnswer

LEMMA AdmissionStep == IInv /\ [Next]_vars => Admission'
<1> SUFFICES ASSUME IInv, [Next]_vars, NEW q \in Requests,
                    pc'[q] \in {"saveUser"} \cup BeforeAnswer
             PROVE  Caller[q] = Owner[Target[q]]
  BY DEF Admission, BeforeAnswer
<1>1. CASE pc[q] \in {"saveUser"} \cup BeforeAnswer
  BY <1>1 DEF IInv, Admission
<1>2. CASE pc[q] \notin {"saveUser"} \cup BeforeAnswer
  <2>1. pc[q] = "find" /\ pc'[q] = "saveUser"
    BY <1>2, Moves DEF IInv, Edge, BeforeAnswer
  <2>2. FindChat(q)
    <3>1. ASSUME NEW r \in Requests, r # q PROVE (Arrive(r) \/ Handler(r) \/ Disconnect(r)) => pc'[q] = pc[q]
      BY <3>1 DEF Handler, IInv, TypeOK, Goto, Reject, Arrive, FindChat, SaveUser, ReadContext,
         Resolve, StreamText, StreamTool, StreamAbandon, StreamDone, StreamError, JsonAnswer,
         JsonError, SaveAnswer, Touch, ErrorHandler, Write, Disconnect, Insert, Settle
    <3>2. Arrive(q) \/ Handler(q) \/ Disconnect(q)
      BY <2>1, <3>1 DEF Next, FlipStreaming, FlipTools, DeleteChat, vars
    <3>3. QED
      BY <2>1, <3>2 DEF Handler, Arrive, SaveUser, ReadContext,
         Resolve, StreamText, StreamTool, StreamAbandon, StreamDone, StreamError, JsonAnswer,
         JsonError, SaveAnswer, Touch, ErrorHandler, Write, Disconnect
  <2>3. QED BY <2>1, <2>2 DEF FindChat, Reject, Goto, Found, IInv, TypeOK
<1>3. QED BY <1>1, <1>2

\* What a step does to the context of a request: it is read, from the rows of
\* then, on the way to "resolve", and given away on the way from there.
LEMMA ContextMoves ==
  ASSUME TypeOK, [Next]_vars, NEW q \in Requests
  PROVE  \/ context'[q] = context[q] /\ ~(pc[q] = "readContext" /\ pc'[q] = "resolve")
         \/ context'[q] = <<>> /\ pc'[q] # "resolve"
         \/ /\ pc[q] = "readContext" /\ UNCHANGED <<chats, log>>
            /\ context'[q] = Newest(log[Target[q]], ContextWindow)
<1> DEFINE Same == context' = context /\ ~(pc[q] = "readContext" /\ pc'[q] = "resolve")
           Goal == \/ context'[q] = context[q] /\ ~(pc[q] = "readContext" /\ pc'[q] = "resolve")
                   \/ context'[q] = <<>> /\ pc'[q] # "resolve"
                   \/ /\ pc[q] = "readContext" /\ UNCHANGED <<chats, log>>
                      /\ context'[q] = Newest(log[Target[q]], ContextWindow)
<1> USE DEF Goto, Reject, TypeOK
<1>1. ASSUME NEW r \in Requests, ReadContext(r) PROVE Goal
  BY <1>1 DEF ReadContext
<1>2. ASSUME NEW r \in Requests, Resolve(r) PROVE Goal
  BY <1>2 DEF Resolve
<1>3. ASSUME NEW r \in Requests,
             \/ Arrive(r) \/ FindChat(r) \/ SaveUser(r) \/ SaveAnswer(r)
             \/ Touch(r) \/ ErrorHandler(r) \/ Disconnect(r)
      PROVE  Same
  BY <1>3 DEF Arrive, FindChat, SaveUser, SaveAnswer, Touch, ErrorHandler, Write, Disconnect, Insert
<1>4. ASSUME NEW r \in Requests,
             \/ StreamText(r) \/ StreamTool(r) \/ StreamAbandon(r) \/ StreamDone(r)
             \/ StreamError(r) \/ JsonAnswer(r) \/ JsonError(r)
      PROVE  Same
  BY <1>4 DEF StreamText, StreamTool, StreamAbandon, StreamDone, StreamError, JsonAnswer,
              JsonError, Settle
<1>5. ASSUME FlipStreaming \/ FlipTools \/ (\E c \in Chats : DeleteChat(c)) \/ UNCHANGED vars
      PROVE  Same
  BY <1>5 DEF FlipStreaming, FlipTools, DeleteChat, vars
<1>6. QED BY <1>1, <1>2, <1>3, <1>4, <1>5 DEF Next, Handler

LEMMA NewestRows ==
  ASSUME NEW S, NEW rows \in Seq(S), NEW n \in Nat \ {0}, NEW i \in DOMAIN Newest(rows, n)
  PROVE  \E j \in DOMAIN rows : Newest(rows, n)[i] = rows[j]
<1> DEFINE m == IF Len(rows) > n THEN Len(rows) - n + 1 ELSE 1
<1>1. m \in 1..(Len(rows) + 1) OBVIOUS
<1>2. Newest(rows, n) = SubSeq(rows, m, Len(rows)) BY DEF Newest
<1> HIDE DEF m
<1>3. i \in 1..(Len(rows) - m + 1) /\ Newest(rows, n)[i] = rows[m + i - 1]
  BY <1>1, <1>2
<1>4. m + i - 1 \in DOMAIN rows BY <1>1, <1>3
<1>5. QED BY <1>3, <1>4

LEMMA ContextStep == IInv /\ [Next]_vars => ContextAtHome'
<1> SUFFICES ASSUME IInv, [Next]_vars, NEW q \in Requests, NEW i \in DOMAIN context'[q]
             PROVE  /\ Target[context'[q][i].from] = Target[q]
                    /\ Caller[context'[q][i].from] = Caller[q]
  BY DEF ContextAtHome
<1>1. CASE context'[q] = context[q]
  BY <1>1 DEF IInv, ContextAtHome
<1>2. CASE context'[q] = <<>>
  BY <1>2
<1>3. CASE pc[q] = "readContext" /\ context'[q] = Newest(log[Target[q]], ContextWindow)
  <2>1. log[Target[q]] \in Seq(Row) /\ Target[q] \in Chats
    BY TargetAssumption DEF IInv, TypeOK
  <2>2. PICK j \in DOMAIN log[Target[q]] : context'[q][i] = log[Target[q]][j]
    BY <1>3, <2>1, NewestRows, BoundAssumption
  <2>3. Caller[q] = Owner[Target[q]]
    BY <1>3 DEF IInv, Admission, BeforeAnswer
  <2>4. QED BY <2>1, <2>2, <2>3 DEF IInv, RowsAtHome
<1>4. QED BY <1>1, <1>2, <1>3, ContextMoves DEF IInv

-----------------------------------------------------------------------------
(* Rows under an insert and a deletion *)

LEMMA AppendedRows ==
  ASSUME TypeOK, NEW c \in Chats, NEW row \in Row,
         log' = [log EXCEPT ![c] = Append(@, row)]
  PROVE  /\ DOMAIN log'[c] = 1..(Len(log[c]) + 1)
         /\ DOMAIN log[c] = 1..Len(log[c]) /\ Len(log[c]) \in Nat
         /\ \A i \in 1..Len(log[c]) : log'[c][i] = log[c][i]
         /\ log'[c][Len(log[c]) + 1] = row
         /\ \A d \in Chats \ {c} : log'[d] = log[d]
<1>1. log[c] \in Seq(Row) /\ log'[c] = Append(log[c], row) BY DEF TypeOK
<1>2. \A d \in Chats \ {c} : log'[d] = log[d] BY DEF TypeOK
<1>3. QED BY <1>1, <1>2

\* A property of single rows survives an insert if the new row has it.
LEMMA InsertedRow ==
  ASSUME TypeOK, NEW c \in Chats, NEW row \in Row,
         log' = [log EXCEPT ![c] = Append(@, row)],
         NEW d \in Chats, NEW i \in DOMAIN log'[d]
  PROVE  \/ i \in DOMAIN log[d] /\ log'[d][i] = log[d][i]
         \/ d = c /\ i = Len(log[c]) + 1 /\ log'[d][i] = row
BY AppendedRows

LEMMA DeletedRow ==
  ASSUME TypeOK, NEW c \in Chats, Deletes(c), NEW d \in Chats, NEW i \in DOMAIN log'[d]
  PROVE  i \in DOMAIN log[d] /\ log'[d] = log[d]
BY DEF Deletes, TypeOK

LEMMA RowFields ==
  ASSUME NEW r \in Requests
  PROVE  /\ Prompt(r).from = r /\ Prompt(r).role = "USER"
         /\ Answer(r).from = r /\ Answer(r).role = "ASSISTANT"
BY DEF Prompt, Answer

LEMMA RowsAtHomeStep == IInv /\ [Next]_vars => RowsAtHome'
<1> SUFFICES ASSUME IInv, [Next]_vars, NEW d \in Chats, NEW i \in DOMAIN log'[d]
             PROVE  /\ log'[d][i].from \in Requests
                    /\ Target[log'[d][i].from] = d
                    /\ Caller[log'[d][i].from] = Owner[d]
  BY DEF RowsAtHome
<1> TypeOK BY DEF IInv
<1>1. CASE i \in DOMAIN log[d] /\ log'[d][i] = log[d][i]
  BY <1>1 DEF IInv, RowsAtHome
<1>2. ASSUME NEW r \in Requests, NEW row \in Row, row.from = r,
             NEW at \in {"saveUser", "saveAnswer"}, Inserts(r, at, row)
      PROVE  \/ i \in DOMAIN log[d] /\ log'[d][i] = log[d][i]
             \/ d = Target[r] /\ log'[d][i].from = r /\ Caller[r] = Owner[Target[r]]
  <2>1. Target[r] \in Chats BY TargetAssumption
  <2>2. Caller[r] = Owner[Target[r]]
    BY <1>2 DEF Inserts, IInv, Admission, BeforeAnswer
  <2>3. QED BY <1>2, <2>1, <2>2, InsertedRow DEF Inserts
<1>3. QED
  BY <1>1, <1>2, LogMoves, RowTypes, RowFields, DeletedRow DEF NoInsert

LEMMA PromptRowsStep == IInv /\ [Next]_vars => PromptRows'
<1> SUFFICES ASSUME IInv, [Next]_vars, NEW d \in Chats, NEW i \in DOMAIN log'[d],
                    log'[d][i].role = "USER"
             PROVE  log'[d][i] = Prompt(log'[d][i].from)
  BY DEF PromptRows, Prompt
<1> TypeOK BY DEF IInv
<1>1. CASE i \in DOMAIN log[d] /\ log'[d][i] = log[d][i]
  BY <1>1 DEF IInv, PromptRows
<1>2. ASSUME NEW r \in Requests, NEW row \in Row, NEW at \in {"saveUser", "saveAnswer"},
             Inserts(r, at, row)
      PROVE  (i \in DOMAIN log[d] /\ log'[d][i] = log[d][i]) \/ log'[d][i] = row
  BY <1>2, InsertedRow, TargetAssumption DEF Inserts
<1>3. QED
  BY <1>1, <1>2, LogMoves, RowTypes, RowFields, DeletedRow DEF NoInsert

LEMMA NothingBeforePromptStep == IInv /\ [Next]_vars => NothingBeforePrompt'
<1> SUFFICES ASSUME IInv, [Next]_vars, NEW q \in Requests, pc'[q] \in BeforePrompt,
                    NEW d \in Chats, NEW i \in DOMAIN log'[d]
             PROVE  log'[d][i].from # q
  BY DEF NothingBeforePrompt, BeforePrompt
<1> TypeOK BY DEF IInv
<1>1. pc[q] \in BeforePrompt BY Moves DEF Edge, BeforePrompt
<1>2. CASE i \in DOMAIN log[d] /\ log'[d][i] = log[d][i]
  BY <1>1, <1>2 DEF IInv, NothingBeforePrompt
<1>3. ASSUME NEW r \in Requests, NEW row \in Row, row.from = r,
             NEW at \in {"saveUser", "saveAnswer"}, Inserts(r, at, row)
      PROVE  (i \in DOMAIN log[d] /\ log'[d][i] = log[d][i]) \/ (log'[d][i].from = r /\ r # q)
  <2>1. r # q
    BY <1>1, <1>3, Moves DEF Inserts, Edge, BeforePrompt
  <2>2. QED BY <1>3, <2>1, InsertedRow, TargetAssumption DEF Inserts
<1>4. QED
  BY <1>2, <1>3, LogMoves, RowTypes, RowFields, DeletedRow DEF NoInsert

LEMMA NoAnswerBeforeSaveStep == IInv /\ [Next]_vars => NoAnswerBeforeSave'
<1> SUFFICES ASSUME IInv, [Next]_vars, NEW q \in Requests, pc'[q] \in BeforeAnswer,
                    NEW d \in Chats, NEW i \in DOMAIN log'[d], log'[d][i].from = q
             PROVE  log'[d][i].role = "USER"
  BY DEF NoAnswerBeforeSave, BeforeAnswer
<1> TypeOK BY DEF IInv
<1>1. pc[q] \in BeforeAnswer \/ pc[q] = "saveUser" BY Moves DEF Edge, BeforeAnswer
<1>2. CASE i \in DOMAIN log[d] /\ log'[d][i] = log[d][i]
  BY <1>1, <1>2 DEF IInv, NoAnswerBeforeSave, NothingBeforePrompt, BeforePrompt
<1>3. ASSUME NEW r \in Requests, Inserts(r, "saveUser", Prompt(r))
      PROVE  (i \in DOMAIN log[d] /\ log'[d][i] = log[d][i]) \/ log'[d][i].role = "USER"
  BY <1>3, InsertedRow, RowTypes, RowFields, TargetAssumption DEF Inserts
<1>4. ASSUME NEW r \in Requests, Inserts(r, "saveAnswer", Answer(r))
      PROVE  i \in DOMAIN log[d] /\ log'[d][i] = log[d][i]
  <2>1. r # q BY <1>4, Moves DEF Inserts, Edge, BeforeAnswer
  <2>2. QED BY <1>4, <2>1, InsertedRow, RowTypes, RowFields, TargetAssumption DEF Inserts
<1>5. QED
  BY <1>2, <1>3, <1>4, LogMoves, DeletedRow DEF NoInsert

LEMMA AnswerFollowsPromptStep == IInv /\ [Next]_vars => AnswerFollowsPrompt'
<1> SUFFICES ASSUME IInv, [Next]_vars,
                    NEW d \in Chats, NEW i \in DOMAIN log'[d], NEW j \in DOMAIN log'[d]
             PROVE  /\ log'[d][i].from = log'[d][j].from /\ log'[d][i].role = log'[d][j].role => i = j
                    /\ log'[d][i].role = "ASSISTANT" =>
                         \E k \in 1..(i - 1) : log'[d][k] = Prompt(log'[d][i].from)
  BY DEF AnswerFollowsPrompt, Prompt
<1> TypeOK BY DEF IInv
<1> DEFINE Goal == /\ log'[d][i].from = log'[d][j].from /\ log'[d][i].role = log'[d][j].role => i = j
                   /\ log'[d][i].role = "ASSISTANT" =>
                         \E k \in 1..(i - 1) : log'[d][k] = Prompt(log'[d][i].from)
<1>1. CASE log'[d] = log[d]
  BY <1>1 DEF IInv, AnswerFollowsPrompt
<1>2. ASSUME NEW r \in Requests, NEW row \in Row, row.from = r, d = Target[r],
             log' = [log EXCEPT ![Target[r]] = Append(@, row)],
             \A k \in DOMAIN log[d] : ~(log[d][k].from = r /\ log[d][k].role = row.role),
             row.role = "ASSISTANT" => \E k \in DOMAIN log[d] : log[d][k] = Prompt(r)
      PROVE  Goal
  <2> DEFINE n == Len(log[d])
  <2>1. /\ DOMAIN log'[d] = 1..(n + 1) /\ DOMAIN log[d] = 1..n /\ n \in Nat
        /\ \A k \in 1..n : log'[d][k] = log[d][k]
        /\ log'[d][n + 1] = row
    <3>1. log' = [log EXCEPT ![d] = Append(@, row)] BY <1>2
    <3>2. /\ DOMAIN log'[d] = 1..(Len(log[d]) + 1)
          /\ DOMAIN log[d] = 1..Len(log[d]) /\ Len(log[d]) \in Nat
          /\ \A k \in 1..Len(log[d]) : log'[d][k] = log[d][k]
          /\ log'[d][Len(log[d]) + 1] = row
      BY <3>1, AppendedRows
    <3>3. QED BY <3>2
  <2> HIDE DEF n
  <2>2. \A k, l \in 1..n :
          /\ log[d][k].from = log[d][l].from /\ log[d][k].role = log[d][l].role => k = l
          /\ log[d][k].role = "ASSISTANT" =>
               \E m \in 1..(k - 1) : log[d][m] = Prompt(log[d][k].from)
    BY <2>1 DEF IInv, AnswerFollowsPrompt
  <2>3. log'[d][i].from = log'[d][j].from /\ log'[d][i].role = log'[d][j].role => i = j
    BY <1>2, <2>1, <2>2
  <2>4. ASSUME log'[d][i].role = "ASSISTANT"
        PROVE  \E k \in 1..(i - 1) : log'[d][k] = Prompt(log'[d][i].from)
    <3>1. CASE i \in 1..n
      <4>1. PICK k \in 1..(i - 1) : log[d][k] = Prompt(log[d][i].from)
        BY <2>1, <2>2, <2>4, <3>1
      <4>2. k \in 1..n BY <2>1, <3>1
      <4>3. QED BY <2>1, <3>1, <4>1, <4>2
    <3>2. CASE i = n + 1
      <4>1. PICK k \in 1..n : log[d][k] = Prompt(r)
        BY <1>2, <2>1, <2>4, <3>2
      <4>2. QED BY <1>2, <2>1, <3>2, <4>1
    <3>3. QED BY <2>1, <3>1, <3>2
  <2>5. QED BY <2>3, <2>4
<1>3. ASSUME NEW r \in Requests, Inserts(r, "saveUser", Prompt(r)) PROVE Goal
  <2>1. \A k \in DOMAIN log[d] : log[d][k].from # r
    BY <1>3 DEF Inserts, IInv, NothingBeforePrompt, BeforePrompt
  <2>2. CASE d = Target[r]
    BY <1>2, <1>3, <2>1, <2>2, RowTypes, RowFields DEF Inserts
  <2>3. CASE d # Target[r]
    BY <1>1, <1>3, <2>3, AppendedRows, RowTypes, TargetAssumption DEF Inserts
  <2>4. QED BY <2>2, <2>3
<1>4. ASSUME NEW r \in Requests, Inserts(r, "saveAnswer", Answer(r)) PROVE Goal
  <2>1. CASE d = Target[r]
    <3>1. \A k \in DOMAIN log[d] : ~(log[d][k].from = r /\ log[d][k].role = Answer(r).role)
      BY <1>4, RowFields DEF Inserts, IInv, NoAnswerBeforeSave, BeforeAnswer
    <3>2. \E k \in DOMAIN log[d] : log[d][k] = Prompt(r)
      BY <1>4, <2>1 DEF Inserts, IInv, PromptKept, Stored, BeforeAnswer, Gone, Rows, PromptAt
    <3>3. /\ log' = [log EXCEPT ![Target[r]] = Append(@, Answer(r))]
          /\ Answer(r) \in Row /\ Answer(r).from = r
      BY <1>4, RowTypes, RowFields DEF Inserts
    <3>4. QED BY <1>2, <2>1, <3>1, <3>2, <3>3
  <2>2. CASE d # Target[r]
    BY <1>1, <1>4, <2>2, AppendedRows, RowTypes, TargetAssumption DEF Inserts
  <2>3. QED BY <2>1, <2>2
<1>5. ASSUME NEW c \in Chats, Deletes(c) PROVE Goal
  BY <1>1, <1>5, DeletedRow
<1>6. QED BY <1>1, <1>3, <1>4, <1>5, LogMoves DEF NoInsert

LEMMA PromptKeptStep == IInv /\ [Next]_vars => PromptKept'
<1> SUFFICES ASSUME IInv, [Next]_vars, NEW q \in Requests, Stored(q)', ~Gone(q)'
             PROVE  \E i \in DOMAIN log'[Target[q]] : log'[Target[q]][i] = Prompt(q)
  BY DEF PromptKept, Stored, Gone, Rows, PromptAt, Prompt
<1> TypeOK BY DEF IInv
<1> DEFINE d == Target[q]
           Goal == \E i \in DOMAIN log'[d] : log'[d][i] = Prompt(q)
<1>0. d \in Chats BY TargetAssumption
<1>1. Stored(q) \/ (pc[q] = "saveUser" /\ pc'[q] = "readContext")
  BY Moves, SuccessMoves DEF Stored, Edge, BeforeAnswer
<1>2. ASSUME Stored(q), d \in chats
      PROVE  \E i \in DOMAIN log[d] : log[d][i] = Prompt(q)
  BY <1>2 DEF IInv, PromptKept, Gone, Rows, PromptAt
<1>3. CASE NoInsert
  BY <1>1, <1>2, <1>3 DEF NoInsert, Gone
<1>4. ASSUME NEW r \in Requests, NEW row \in Row, NEW at,
             Inserts(r, at, row), Stored(q) \/ (q = r /\ row = Prompt(q))
      PROVE  Goal
  <2>1. Target[r] \in Chats BY TargetAssumption
  <2>2. CASE Stored(q)
    <3>1. PICK i \in DOMAIN log[d] : log[d][i] = Prompt(q)
      BY <1>2, <1>4, <2>2 DEF Inserts, Gone
    <3>2. i \in DOMAIN log'[d] /\ log'[d][i] = log[d][i]
      BY <1>0, <1>4, <2>1, <3>1, AppendedRows DEF Inserts
    <3>3. QED BY <3>1, <3>2
  <2>3. CASE q = r /\ row = Prompt(q)
    <3>1. log' = [log EXCEPT ![d] = Append(@, row)] BY <1>4, <2>3 DEF Inserts
    <3>2. /\ DOMAIN log'[d] = 1..(Len(log[d]) + 1) /\ Len(log[d]) \in Nat
          /\ log'[d][Len(log[d]) + 1] = row
      BY <1>0, <3>1, AppendedRows
    <3>3. QED BY <2>3, <3>2
  <2>4. QED BY <1>4, <2>2, <2>3
<1>5. ASSUME NEW r \in Requests, Inserts(r, "saveUser", Prompt(r)) PROVE Goal
  <2>1. Stored(q) \/ q = r BY <1>1, <1>5 DEF Inserts
  <2>2. QED BY <1>4, <1>5, <2>1, RowTypes
<1>6. ASSUME NEW r \in Requests, Inserts(r, "saveAnswer", Answer(r)) PROVE Goal
  <2>1. Stored(q) BY <1>1, <1>6 DEF Inserts
  <2>2. QED BY <1>4, <1>6, <2>1, RowTypes
<1>7. ASSUME NEW c \in Chats, Deletes(c) PROVE Goal
  <2>1. Stored(q) BY <1>1, <1>7 DEF Deletes
  <2>2. d # c /\ d \in chats BY <1>7 DEF Deletes, Gone
  <2>3. log'[d] = log[d] BY <1>0, <1>7, <2>2 DEF Deletes, TypeOK
  <2>4. QED BY <1>2, <2>1, <2>2, <2>3
<1>8. QED BY <1>3, <1>5, <1>6, <1>7, LogMoves

LEMMA IInvStep == IInv /\ [Next]_vars => IInv'
BY TypeStep, AdmissionStep, RowsAtHomeStep, ContextStep, PromptRowsStep,
   NothingBeforePromptStep, NoAnswerBeforeSaveStep, PromptKeptStep, AnswerFollowsPromptStep
   DEF IInv

LEMMA IInvCorrect == Spec => []IInv
BY IInvInit, IInvStep, PTL DEF Spec

-----------------------------------------------------------------------------
(***************************************************************************)
(* The prompt and the history read after it.  PromptReachesModel is        *)
(* inductive together with IInv: that a chat holds a request's prompt once *)
(* makes the position of the oldest row that was read certain.             *)
(***************************************************************************)

Outrun(q) ==
  /\ Len(context[q]) = ContextWindow
  /\ \A i \in DOMAIN Rows(q) : Rows(q)[i] = context[q][1] =>
       \E j \in 1..(i - 1) : PromptAt(q, j)

Reached(q) == Gone(q) \/ (\E i \in DOMAIN context[q] : context[q][i] = Prompt(q)) \/ Outrun(q)

\* What a window of the newest rows leaves out is older than its first row.
LEMMA NewestWindow ==
  ASSUME NEW S, NEW rows \in Seq(S), NEW n \in Nat \ {0}, NEW p \in DOMAIN rows
  PROVE  \/ \E i \in DOMAIN Newest(rows, n) : Newest(rows, n)[i] = rows[p]
         \/ /\ Len(Newest(rows, n)) = n
            /\ \E m \in DOMAIN rows : p < m /\ Newest(rows, n)[1] = rows[m]
<1> DEFINE m == IF Len(rows) > n THEN Len(rows) - n + 1 ELSE 1
           w == Newest(rows, n)
<1>1. m \in Nat /\ 1 <= m /\ m <= Len(rows) + 1 /\ Len(rows) \in Nat OBVIOUS
<1>2. w = SubSeq(rows, m, Len(rows)) BY DEF Newest
<1>3. /\ m > 1 => Len(rows) - m + 1 = n /\ m <= Len(rows)
      /\ p \in 1..Len(rows)
  OBVIOUS
<1> HIDE DEF m, w
<1>4. /\ DOMAIN w = 1..(Len(rows) - m + 1) /\ Len(w) = Len(rows) - m + 1
      /\ \A i \in 1..(Len(rows) - m + 1) : w[i] = rows[m + i - 1]
  BY <1>1, <1>2
<1>5. CASE p >= m
  <2>1. p - m + 1 \in DOMAIN w /\ w[p - m + 1] = rows[p]
    BY <1>1, <1>3, <1>4, <1>5
  <2> QED BY <2>1 DEF w
<1>6. CASE p < m
  <2>1. Len(w) = n /\ m \in DOMAIN rows /\ w[1] = rows[m]
    BY <1>1, <1>3, <1>4, <1>6
  <2> QED BY <1>6, <2>1 DEF w
<1> QED BY <1>1, <1>3, <1>5, <1>6

LEMMA ReachedByReading ==
  ASSUME IInv, NEW q \in Requests, pc[q] = "readContext", UNCHANGED <<chats, log>>,
         context'[q] = Newest(log[Target[q]], ContextWindow)
  PROVE  Reached(q)'
<1> DEFINE rows == log[Target[q]]
<1>1. rows \in Seq(Row) /\ Target[q] \in Chats
  BY TargetAssumption DEF IInv, TypeOK
<1>2. CASE Gone(q)
  BY <1>2 DEF Reached, Gone
<1>3. ASSUME ~Gone(q) PROVE Reached(q)'
  <2>1. PICK p \in DOMAIN rows : rows[p] = Prompt(q)
    BY <1>3 DEF IInv, PromptKept, Stored, BeforeAnswer, Rows, PromptAt
  <2>2. CASE \E i \in DOMAIN context'[q] : context'[q][i] = rows[p]
    BY <2>1, <2>2 DEF Reached, Prompt
  <2>3. ASSUME Len(context'[q]) = ContextWindow,
               NEW m \in DOMAIN rows, p < m, context'[q][1] = rows[m]
        PROVE  Outrun(q)'
    <3>1. ASSUME NEW i \in DOMAIN rows, rows[i] = rows[m] PROVE i = m
      BY <1>1, <3>1 DEF IInv, AnswerFollowsPrompt
    <3>2. p \in 1..(m - 1) BY <1>1, <2>3
    <3> QED BY <2>1, <2>3, <3>1, <3>2 DEF Outrun, PromptAt, Rows, Prompt
  <2>4. \/ \E i \in DOMAIN context'[q] : context'[q][i] = rows[p]
        \/ /\ Len(context'[q]) = ContextWindow
           /\ \E m \in DOMAIN rows : p < m /\ context'[q][1] = rows[m]
    BY <1>1, NewestWindow, BoundAssumption
  <2> QED BY <2>2, <2>3, <2>4 DEF Reached
<1> QED BY <1>2, <1>3

\* Rows that come later are newer than the prompt.
LEMMA ReachedStays ==
  ASSUME IInv, [Next]_vars, NEW q \in Requests, pc[q] = "resolve",
         context'[q] = context[q], Reached(q)
  PROVE  Reached(q)'
<1> DEFINE d == Target[q]
<1>0. TypeOK /\ d \in Chats BY TargetAssumption DEF IInv
<1> USE DEF Reached, Outrun, Gone, Rows, PromptAt, Prompt
<1>1. CASE NoInsert
  BY <1>1 DEF NoInsert
<1>2. ASSUME NEW r \in Requests, NEW row \in Row, NEW at, Inserts(r, at, row)
      PROVE  Reached(q)'
  <2>1. CASE Gone(q) \/ \E i \in DOMAIN context[q] : context[q][i] = Prompt(q)
    BY <1>2, <2>1 DEF Inserts
  <2>2. CASE d # Target[r]
    <3>1. log'[d] = log[d] /\ chats' = chats
      BY <1>0, <1>2, <2>2 DEF Inserts, TypeOK
    <3> QED BY <3>1
  <2>3. ASSUME d = Target[r], ~Gone(q), Outrun(q) PROVE Outrun(q)'
    <3>1. PICK p \in DOMAIN log[d] : log[d][p] = Prompt(q)
      BY <1>0, <2>3 DEF IInv, PromptKept, Stored, BeforeAnswer
    <3>2. /\ DOMAIN log'[d] = 1..(Len(log[d]) + 1)
          /\ DOMAIN log[d] = 1..Len(log[d]) /\ Len(log[d]) \in Nat
          /\ \A i \in 1..Len(log[d]) : log'[d][i] = log[d][i]
      BY <1>0, <1>2, <2>3, AppendedRows DEF Inserts
    <3>3. ASSUME NEW i \in DOMAIN log'[d], log'[d][i] = context[q][1]
          PROVE  \E j \in 1..(i - 1) : j \in DOMAIN log'[d] /\ log'[d][j] = Prompt(q)
      <4>1. CASE i \in DOMAIN log[d]
        <5>1. PICK j \in 1..(i - 1) : j \in DOMAIN log[d] /\ log[d][j] = Prompt(q)
          BY <2>3, <3>2, <3>3, <4>1
        <5> QED BY <3>2, <4>1, <5>1
      <4>2. CASE i = Len(log[d]) + 1
        <5>1. p \in 1..(i - 1) /\ p \in DOMAIN log'[d] /\ log'[d][p] = Prompt(q)
          BY <3>1, <3>2, <4>2
        <5> QED BY <5>1
      <4>3. i \in DOMAIN log[d] \/ i = Len(log[d]) + 1
        BY <3>2
      <4> QED BY <4>1, <4>2, <4>3
    <3> QED BY <2>3, <3>3
  <2> QED BY <2>1, <2>2, <2>3
<1>3. ASSUME NEW c \in Chats, Deletes(c) PROVE Reached(q)'
  <2>1. CASE d = c \/ Gone(q)
    BY <1>3, <2>1 DEF Deletes
  <2>2. CASE d # c /\ ~Gone(q)
    <3>1. log'[d] = log[d] BY <1>0, <1>3, <2>2 DEF Deletes, TypeOK
    <3> QED BY <3>1, <2>2
  <2> QED BY <2>1, <2>2
<1> QED BY <1>0, <1>1, <1>2, <1>3, LogMoves, RowTypes

PInv == IInv /\ \A q \in Requests : pc[q] = "resolve" => Reached(q)

LEMMA PInvInit == Init => PInv
BY IInvInit DEF PInv, Init

LEMMA PInvStep == PInv /\ [Next]_vars => PInv'
<1> SUFFICES ASSUME PInv, [Next]_vars, NEW q \in Requests, pc'[q] = "resolve"
             PROVE  Reached(q)'
  BY IInvStep DEF PInv
<1>1. IInv /\ TypeOK BY DEF PInv, IInv
<1>2. pc[q] \in {"readContext", "resolve"}
  BY <1>1, Moves DEF Edge
<1>3. CASE pc[q] = "readContext" /\ UNCHANGED <<chats, log>>
           /\ context'[q] = Newest(log[Target[q]], ContextWindow)
  BY <1>1, <1>3, ReachedByReading
<1>4. CASE pc[q] = "resolve" /\ context'[q] = context[q]
  BY <1>1, <1>4, ReachedStays DEF PInv
<1> QED BY <1>1, <1>2, <1>3, <1>4, ContextMoves

LEMMA PInvCorrect == Spec => []PInv
BY PInvInit, PInvStep, PTL DEF Spec

-----------------------------------------------------------------------------
(* Theorems *)

\* No interleaving lets a caller write into, or prompt with rows of, a chat
\* that is not the caller's: the one check in findById is enough.
THEOREM IsolationCorrect == Spec => []Isolation
<1>1. IInv => Isolation
  BY DEF IInv, RowsAtHome, ContextAtHome, Isolation
<1>2. QED BY <1>1, IInvCorrect, PTL

\* A chat holds at most one prompt and one answer of each request, the prompt
\* first, for any number of concurrent requests and lost acknowledgements.
THEOREM AnswerFollowsPromptCorrect == Spec => []AnswerFollowsPrompt
<1>1. IInv => AnswerFollowsPrompt BY DEF IInv
<1>2. QED BY <1>1, IInvCorrect, PTL

\* The prompt is in the chat from the moment the model is asked until the chat
\* is deleted, also when the request fails later.
THEOREM PromptSurvivesCorrect == Spec => []PromptSurvives
<1>1. IInv => PromptSurvives
  BY DEF IInv, PromptKept, Stored, BeforeAnswer, PromptSurvives
<1>2. QED BY <1>1, IInvCorrect, PTL

\* The model is asked with the prompt, or a whole window of rows newer than the
\* prompt came between the insert and the read: for every window and any number
\* of requests that write to the chat.
THEOREM PromptReachesModelCorrect == Spec => []PromptReachesModel
<1>1. PInv => PromptReachesModel
  BY DEF PInv, Reached, Outrun, PromptReachesModel
<1>2. QED BY <1>1, PInvCorrect, PTL

-----------------------------------------------------------------------------
(* The response.  A step is one request's own, or leaves the request alone *)

Acts(r) == Arrive(r) \/ Handler(r) \/ Disconnect(r)

Rests(r) ==
  /\ pc'[r] = pc[r] /\ wire'[r] = wire[r] /\ ended'[r] = ended[r]
  /\ text'[r] = text[r] /\ tools'[r] = tools[r] /\ incomplete'[r] = incomplete[r]
  /\ errored'[r] = errored[r] /\ clientClosed'[r] = clientClosed[r]

LEMMA OthersRest ==
  ASSUME TypeOK, NEW r \in Requests, Acts(r), NEW q \in Requests \ {r}
  PROVE  Rests(q)
<1> USE DEF TypeOK, Rests, Goto, Reject
<1>1. CASE Arrive(r) \/ FindChat(r) \/ ReadContext(r) \/ Resolve(r)
  BY <1>1 DEF Arrive, FindChat, ReadContext, Resolve
<1>2. CASE SaveUser(r) \/ SaveAnswer(r) \/ Touch(r)
  BY <1>2 DEF SaveUser, SaveAnswer, Touch, Insert
<1>3. CASE StreamText(r) \/ StreamTool(r) \/ StreamAbandon(r) \/ StreamDone(r) \/ StreamError(r)
  BY <1>3 DEF StreamText, StreamTool, StreamAbandon, StreamDone, StreamError, Settle, Send, End
<1>4. CASE JsonAnswer(r) \/ JsonError(r)
  BY <1>4 DEF JsonAnswer, JsonError, Settle, Send, End
<1>5. CASE ErrorHandler(r) \/ Disconnect(r)
  BY <1>5 DEF ErrorHandler, Write, Disconnect, Send, End
<1>6. QED BY <1>1, <1>2, <1>3, <1>4, <1>5 DEF Acts, Handler

LEMMA OwnStep ==
  ASSUME TypeOK, [Next]_vars, NEW q \in Requests
  PROVE  Acts(q) \/ Rests(q)
<1>1. CASE FlipStreaming \/ FlipTools \/ (\E c \in Chats : DeleteChat(c)) \/ UNCHANGED vars
  BY <1>1 DEF FlipStreaming, FlipTools, DeleteChat, vars, Rests
<1>2. CASE \E r \in Requests : Acts(r)
  BY <1>2, OthersRest
<1>3. QED BY <1>1, <1>2 DEF Next, Acts

-----------------------------------------------------------------------------
(* What a handler has written where it stands *)

Unanswered == {"idle", "find", "saveUser", "readContext", "resolve", "json"}
Chunks == {"token", "tool_execution"}

\* A stream under way, and one that is over
Opened(w) == w # <<>> /\ w[1] = "start" /\ \A i \in 2..Len(w) : w[i] \in Chunks
Closed(w) ==
  /\ w # <<>> /\ w[1] = "start"
  /\ \A i \in 2..Len(w) : w[i] \in Chunks \cup {"done", "error"} /\ (i < Len(w) => w[i] \in Chunks)

Silent(r) == wire[r] = <<>> /\ ~ended[r] /\ ~clientClosed[r]

Over(r) ==
  /\ ended[r] /\ (Closed(wire[r]) \/ wire[r] = <<"json">>)
  /\ incomplete[r] <=> ~Succeeded(r)

Response(r) ==
  /\ pc[r] \in Unanswered => Silent(r) /\ ~errored[r] /\ ~incomplete[r] /\ text[r] = 0
  /\ pc[r] = "stream" => Opened(wire[r]) /\ ~ended[r] /\ ~errored[r] /\ ~incomplete[r]
  /\ pc[r] \in {"saveAnswer", "touch"} => Over(r) /\ text[r] > 0 /\ ~errored[r]
  /\ pc[r] = "failed" => errored[r] /\ (Silent(r) \/ (Over(r) /\ text[r] > 0))
  /\ pc[r] = "done" =>
       \/ ended[r] /\ errored[r] /\ wire[r] = <<"refusal">>
       \/ Over(r) /\ (errored[r] => text[r] > 0)

LEMMA ResponseInit == Init => \A r \in Requests : Response(r)
BY DEF Init, Response, Silent, Unanswered

\* Frames are appended to a stream until it is over.
LEMMA Appended ==
  ASSUME NEW w \in Seq(Frame), NEW f \in Frame
  PROVE  /\ Opened(w) /\ f \in Chunks => Opened(Append(w, f))
         /\ Opened(w) /\ f \in {"done", "error"} => Closed(Append(w, f))
         /\ Append(w, f) # <<>> /\ Append(w, f)[Len(Append(w, f))] = f
<1>1. /\ Len(Append(w, f)) = Len(w) + 1 /\ Append(w, f)[Len(w) + 1] = f
      /\ \A i \in 1..Len(w) : Append(w, f)[i] = w[i]
  OBVIOUS
<1>2. w # <<>> => 1 \in 1..Len(w) OBVIOUS
<1>3. Append(w, f) # <<>>
  <2>1. Len(Append(w, f)) # 0 BY <1>1
  <2>2. Len(<<>>) = 0 OBVIOUS
  <2>3. QED BY <2>1, <2>2
<1>4. Len(w) \in Nat OBVIOUS
<1> HIDE DEF Frame
<1>5. QED BY <1>1, <1>2, <1>3, <1>4 DEF Opened, Closed

LEMMA OpenIsNoSuccess ==
  ASSUME NEW w \in Seq(Frame), Opened(w)
  PROVE  Closed(w) /\ w[Len(w)] \notin {"done", "json"}
<1>1. Len(w) \in Nat \ {0} BY DEF Opened
<1>2. QED BY <1>1 DEF Opened, Closed, Chunks

LEMMA ResponseStep ==
  ASSUME TypeOK, [Next]_vars, NEW r \in Requests, Response(r)
  PROVE  Response(r)'
<1> DEFINE w == wire[r]
<1>0. w \in Seq(Frame) BY DEF TypeOK
<1> USE DEF Response, TypeOK, Goto, Reject, Unanswered, Silent
<1>1. CASE Rests(r)
  BY <1>1 DEF Rests, Over, Succeeded, LastFrame
<1>2. CASE Arrive(r) \/ FindChat(r) \/ ReadContext(r)
  BY <1>2 DEF Arrive, FindChat, ReadContext
<1>3. CASE SaveUser(r)
  BY <1>3 DEF SaveUser, Insert
<1>4. CASE Resolve(r)
  <2>1. Opened(<<"start">>)
    <3>1. <<"start">> # <<>> /\ <<"start">>[1] = "start" /\ Len(<<"start">>) = 1 OBVIOUS
    <3>2. QED BY <3>1 DEF Opened
  <2>2. pc'[r] = "stream" => wire'[r] = <<"start">>
    BY <1>4 DEF Resolve
  <2>3. QED BY <1>4, <2>1, <2>2 DEF Resolve
<1>5. CASE StreamText(r) \/ StreamTool(r)
  <2>1. PICK f \in Chunks : wire' = [wire EXCEPT ![r] = Append(@, f)]
    BY <1>5 DEF StreamText, StreamTool, Send, Chunks
  <2>2. Opened(wire'[r])
    BY <1>0, <1>5, <2>1, Appended DEF StreamText, StreamTool, Chunks, Frame
  <2>3. QED BY <1>5, <2>2 DEF StreamText, StreamTool
<1>6. CASE StreamAbandon(r)
  <2>1. Over(r)'
    BY <1>0, <1>6, OpenIsNoSuccess DEF StreamAbandon, Over, Succeeded, LastFrame, End
  <2>2. QED BY <1>6, <2>1 DEF StreamAbandon, Settle
<1>7. CASE StreamDone(r)
  <2>1. Over(r)'
    BY <1>0, <1>7, Appended DEF StreamDone, Over, Succeeded, LastFrame, Send, End, Frame, Terminal
  <2>2. QED BY <1>7, <2>1 DEF StreamDone, Settle
<1>8. CASE StreamError(r)
  <2>1. Over(r)'
    BY <1>0, <1>8, Appended DEF StreamError, Over, Succeeded, LastFrame, Send, End, Frame, Terminal
  <2>2. QED BY <1>8, <2>1 DEF StreamError, Settle
<1>9. CASE JsonAnswer(r)
  <2>1. wire'[r] = <<"json">> BY <1>9 DEF JsonAnswer, Send
  <2>2. Over(r)' BY <1>9, <2>1 DEF JsonAnswer, Over, Succeeded, LastFrame, End
  <2>3. QED BY <1>9, <2>2, BoundAssumption DEF JsonAnswer, Settle
<1>10. CASE JsonError(r)
  BY <1>10 DEF JsonError
<1>11. CASE SaveAnswer(r)
  BY <1>11 DEF SaveAnswer, Insert, Over, Succeeded, LastFrame
<1>12. CASE Touch(r)
  BY <1>12 DEF Touch, Over, Succeeded, LastFrame
<1>13. CASE ErrorHandler(r)
  <2>1. CASE Over(r)
    BY <1>13, <2>1 DEF ErrorHandler, Write, Over, Succeeded, LastFrame, End
  <2>2. CASE Silent(r)
    BY <1>13, <2>2 DEF ErrorHandler, Write, Send, End, HeadersSent
  <2>3. QED BY <1>13, <2>1, <2>2 DEF ErrorHandler, Write
<1>14. CASE Disconnect(r)
  BY <1>14 DEF Disconnect, Over, Succeeded, LastFrame
<1>15. QED
  BY <1>1, <1>2, <1>3, <1>4, <1>5, <1>6, <1>7, <1>8, <1>9, <1>10, <1>11, <1>12, <1>13,
     <1>14, OwnStep DEF Acts, Handler

-----------------------------------------------------------------------------
(* How a step changes a response *)

WireStep(r) ==
  /\ ended[r] => ended'[r] /\ wire'[r] = wire[r]
  /\ wire'[r] = wire[r] \/ \E f \in Frame : wire'[r] = Append(wire[r], f)
  /\ clientClosed[r] =>
       /\ text'[r] = text[r] /\ tools'[r] = tools[r]
       /\ wire'[r] \in {wire[r], Append(wire[r], "done"), Append(wire[r], "error")}

LEMMA WireSteps ==
  ASSUME TypeOK, [Next]_vars, NEW r \in Requests, Response(r)
  PROVE  WireStep(r)
<1> USE DEF Response, TypeOK, Unanswered, Silent, Over, WireStep
<1>1. CASE Rests(r)
  BY <1>1 DEF Rests
<1>2. CASE Arrive(r) \/ FindChat(r) \/ SaveUser(r) \/ ReadContext(r)
  BY <1>2 DEF Arrive, FindChat, SaveUser, ReadContext
<1>3. CASE Resolve(r)
  <2>1. ~ended[r] /\ ~clientClosed[r] /\ wire[r] = <<>> BY <1>3 DEF Resolve
  <2>2. wire'[r] = wire[r] \/ wire'[r] = <<"start">> BY <1>3 DEF Resolve
  <2>3. <<"start">> = Append(<<>>, "start") /\ "start" \in Frame BY DEF Frame
  <2>4. QED BY <2>1, <2>2, <2>3
<1>4. CASE StreamText(r) \/ StreamTool(r) \/ StreamAbandon(r)
  BY <1>4 DEF StreamText, StreamTool, StreamAbandon, Send, Frame
<1>5. CASE StreamDone(r) \/ StreamError(r) \/ JsonAnswer(r)
  BY <1>5 DEF StreamDone, StreamError, JsonAnswer, Send, Frame, Terminal
<1>6. CASE JsonError(r) \/ SaveAnswer(r) \/ Touch(r) \/ Disconnect(r)
  BY <1>6 DEF JsonError, SaveAnswer, Touch, Disconnect
<1>7. CASE ErrorHandler(r)
  BY <1>7 DEF ErrorHandler, Write, Send, End, HeadersSent, Frame, Terminal
<1>8. QED
  BY <1>1, <1>2, <1>3, <1>4, <1>5, <1>6, <1>7, OwnStep DEF Acts, Handler

-----------------------------------------------------------------------------
(* An answer that reached the chat stays there until the chat is deleted *)

AnswerKept(r) ==
  pc[r] = "touch" \/ (pc[r] = "done" /\ text[r] > 0 /\ ~errored[r]) => Gone(r) \/ Answered(r)

LEMMA AnswersStay ==
  ASSUME TypeOK, [Next]_vars, NEW r \in Requests, Gone(r) \/ Answered(r)
  PROVE  (Gone(r) \/ Answered(r))'
<1> USE DEF Gone, Answered, AnswerAt, Rows
<1>0. Target[r] \in Chats BY TargetAssumption
<1>1. CASE NoInsert BY <1>1 DEF NoInsert
<1>2. ASSUME NEW q \in Requests, NEW row \in Row, NEW at, Inserts(q, at, row)
      PROVE  (Gone(r) \/ Answered(r))'
  <2>1. CASE Gone(r) BY <1>2, <2>1 DEF Inserts
  <2>2. ASSUME NEW i \in DOMAIN log[Target[r]] PROVE /\ i \in DOMAIN log'[Target[r]]
                                                   /\ log'[Target[r]][i] = log[Target[r]][i]
    BY <1>0, <1>2, TargetAssumption, AppendedRows DEF Inserts
  <2>3. CASE Answered(r) BY <2>2, <2>3
  <2>4. QED BY <2>1, <2>3
<1>3. ASSUME NEW c \in Chats, Deletes(c) PROVE (Gone(r) \/ Answered(r))'
  BY <1>0, <1>3 DEF Deletes, TypeOK
<1>4. QED BY <1>1, <1>2, <1>3, LogMoves, RowTypes

LEMMA AnswerKeptStep ==
  ASSUME TypeOK, [Next]_vars, NEW r \in Requests, Response(r), AnswerKept(r)
  PROVE  AnswerKept(r)'
<1> USE DEF AnswerKept, TypeOK, Goto, Reject
<1>1. CASE Gone(r) \/ Answered(r) BY <1>1, AnswersStay
<1>2. CASE Rests(r) /\ ~(Gone(r) \/ Answered(r)) BY <1>2 DEF Rests
<1>3. CASE Arrive(r) \/ FindChat(r) \/ SaveUser(r) \/ ReadContext(r) \/ Resolve(r)
  BY <1>3 DEF Arrive, FindChat, SaveUser, Insert, ReadContext, Resolve
<1>4. CASE StreamText(r) \/ StreamTool(r) \/ StreamAbandon(r) \/ StreamDone(r) \/ StreamError(r)
  BY <1>4 DEF StreamText, StreamTool, StreamAbandon, StreamDone, StreamError, Settle
<1>5. CASE JsonAnswer(r) \/ JsonError(r)
  BY <1>5 DEF JsonAnswer, JsonError, Settle
<1>6. CASE SaveAnswer(r)
  <2>1. CASE pc'[r] = "touch"
    <3>1. log' = [log EXCEPT ![Target[r]] = Append(@, Answer(r))]
      BY <1>6, <2>1 DEF SaveAnswer, Insert
    <3>2. Target[r] \in Chats /\ Answer(r) \in Row BY TargetAssumption, RowTypes
    <3> DEFINE n == Len(log[Target[r]]) + 1
    <3>3. n \in DOMAIN log'[Target[r]] /\ log'[Target[r]][n] = Answer(r)
      BY <3>1, <3>2, AppendedRows
    <3> HIDE DEF n
    <3>4. log'[Target[r]][n].from = r /\ log'[Target[r]][n].role = "ASSISTANT"
      BY <3>3, RowFields
    <3>5. Answered(r)' BY <3>3, <3>4 DEF Answered, AnswerAt, Rows
    <3>6. QED BY <3>5
  <2>2. CASE pc'[r] # "touch" BY <1>6, <2>2 DEF SaveAnswer, Insert
  <2>3. QED BY <2>1, <2>2
<1>7. CASE Touch(r) /\ ~(Gone(r) \/ Answered(r)) BY <1>7 DEF Touch
<1>8. CASE ErrorHandler(r)
  BY <1>8 DEF ErrorHandler, Write, Response
<1>9. CASE Disconnect(r) /\ ~(Gone(r) \/ Answered(r)) BY <1>9 DEF Disconnect
<1>10. QED
  BY <1>1, <1>2, <1>3, <1>4, <1>5, <1>6, <1>7, <1>8, <1>9, OwnStep DEF Acts, Handler

-----------------------------------------------------------------------------
(* The invariant of the responses *)

RInv == IInv /\ \A r \in Requests : Response(r) /\ AnswerKept(r)

LEMMA RInvInit == Init => RInv
<1>1. Init => \A r \in Requests : AnswerKept(r) BY DEF Init, AnswerKept
<1>2. QED BY <1>1, IInvInit, ResponseInit DEF RInv

LEMMA RInvStep == RInv /\ [Next]_vars => RInv'
<1> SUFFICES ASSUME RInv, [Next]_vars PROVE RInv' OBVIOUS
<1>1. TypeOK /\ IInv' BY IInvStep DEF RInv, IInv
<1>2. ASSUME NEW r \in Requests PROVE Response(r)' /\ AnswerKept(r)'
  BY <1>1, <1>2, ResponseStep, AnswerKeptStep DEF RInv
<1>3. QED BY <1>1, <1>2 DEF RInv

LEMMA RInvCorrect == Spec => []RInv
BY RInvInit, RInvStep, PTL DEF Spec

-----------------------------------------------------------------------------
(***************************************************************************)
(* What is stored is what was sent.  StoredIsSent says nothing of a stream *)
(* under way: Tally, that its locals count the frames it has written, is   *)
(* what makes it inductive.                                                *)
(***************************************************************************)

Occurs(w, f) == {i \in DOMAIN w : w[i] = f}

LEMMA CountIsOccurs ==
  ASSUME NEW r, NEW f PROVE Count(r, f) = Cardinality(Occurs(wire[r], f))
BY DEF Count, Occurs

LEMMA OccursAppended ==
  ASSUME NEW w \in Seq(Frame), NEW f \in Frame, NEW g
  PROVE  /\ Cardinality(Occurs(w, g)) \in Nat
         /\ f # g => Cardinality(Occurs(Append(w, f), g)) = Cardinality(Occurs(w, g))
         /\ f = g => Cardinality(Occurs(Append(w, f), g)) = Cardinality(Occurs(w, g)) + 1
<1> DEFINE n == Len(w)
           S == Occurs(w, g)
<1>1. /\ n \in Nat /\ DOMAIN w = 1..n /\ DOMAIN Append(w, f) = 1..(n + 1)
      /\ Append(w, f)[n + 1] = f /\ \A i \in 1..n : Append(w, f)[i] = w[i]
  OBVIOUS
<1> HIDE DEF n
<1>2. IsFiniteSet(1..n)
  BY <1>1, FS_Interval
<1>3. S \subseteq 1..n
  BY <1>1 DEF Occurs
<1>4. IsFiniteSet(S)
  BY <1>2, <1>3, FS_Subset
<1>5. Cardinality(S) \in Nat
  BY <1>4, FS_CardinalityType
<1>6. f # g => Occurs(Append(w, f), g) = S
  BY <1>1 DEF Occurs
<1>7. n + 1 \notin S
  BY <1>1, <1>3
<1>8. f = g => Occurs(Append(w, f), g) = S \cup {n + 1}
  BY <1>1 DEF Occurs
<1>9. Cardinality(S \cup {n + 1}) = Cardinality(S) + 1
  BY <1>4, <1>7, FS_AddElement
<1> HIDE DEF S
<1> QED BY <1>5, <1>6, <1>8, <1>9 DEF S

LEMMA OccursInStart ==
  ASSUME NEW f, f # "start"
  PROVE  Cardinality(Occurs(<<"start">>, f)) = 0
<1>1. Occurs(<<"start">>, f) = {} BY DEF Occurs
<1> QED BY <1>1, FS_EmptySet

Counted(r) ==
  /\ text[r] = Count(r, "token")
  /\ tools[r] = Count(r, "tool_execution")

Tally(r) ==
  /\ pc[r] \in Unanswered => tools[r] = 0
  /\ pc[r] = "stream" => Counted(r)
  /\ pc[r] = "saveAnswer" /\ wire[r][1] = "start" => Counted(r)

LEMMA CountRests ==
  ASSUME NEW r \in Requests, wire'[r] = wire[r], text'[r] = text[r], tools'[r] = tools[r]
  PROVE  Counted(r)' <=> Counted(r)
BY DEF Counted, Count

LEMMA TallyStep ==
  ASSUME TypeOK, [Next]_vars, NEW r \in Requests, Response(r), Tally(r)
  PROVE  Tally(r)'
<1>0. wire[r] \in Seq(Frame) BY DEF TypeOK
<1> USE DEF Tally, TypeOK, Goto, Reject, Unanswered
<1>1. CASE Rests(r)
  BY <1>1, CountRests DEF Rests
<1>2. CASE Arrive(r) \/ FindChat(r) \/ SaveUser(r) \/ ReadContext(r)
  BY <1>2 DEF Arrive, FindChat, SaveUser, Insert, ReadContext
<1>3. CASE Resolve(r)
  <2>1. text[r] = 0 /\ tools[r] = 0 /\ text' = text /\ tools' = tools
    BY <1>3 DEF Resolve, Response
  <2>2. CASE pc'[r] = "stream"
    <3>1. wire'[r] = <<"start">> BY <1>3, <2>2 DEF Resolve
    <3>2. /\ Cardinality(Occurs(wire'[r], "token")) = 0
          /\ Cardinality(Occurs(wire'[r], "tool_execution")) = 0
      BY <3>1, OccursInStart
    <3>3. Counted(r)' BY <2>1, <3>2 DEF Counted, Count, Occurs
    <3> QED BY <2>2, <3>3
  <2>3. CASE pc'[r] # "stream"
    <3>1. pc'[r] = "json" BY <1>3, <2>3 DEF Resolve
    <3> QED BY <2>1, <3>1
  <2> QED BY <2>2, <2>3
<1>4. ASSUME NEW f \in Frame, wire'[r] = Append(wire[r], f)
      PROVE  /\ Count(r, "token")' = Count(r, "token") + (IF f = "token" THEN 1 ELSE 0)
             /\ Count(r, "tool_execution")' =
                  Count(r, "tool_execution") + (IF f = "tool_execution" THEN 1 ELSE 0)
             /\ Count(r, "token") \in Nat /\ Count(r, "tool_execution") \in Nat
  <2>1. ASSUME NEW g PROVE /\ Count(r, g)' = Cardinality(Occurs(Append(wire[r], f), g))
                           /\ Count(r, g) = Cardinality(Occurs(wire[r], g))
    BY <1>4 DEF Count, Occurs
  <2> QED BY <1>0, <2>1, OccursAppended
<1>5. CASE StreamText(r)
  <2>1. /\ wire'[r] = Append(wire[r], "token") /\ "token" \in Frame
        /\ text'[r] = text[r] + 1 /\ tools'[r] = tools[r]
        /\ pc'[r] = "stream" /\ pc[r] = "stream"
    BY <1>5 DEF StreamText, Send, Frame
  <2>2. Counted(r)' BY <1>4, <2>1 DEF Counted
  <2> QED BY <2>1, <2>2
<1>6. CASE StreamTool(r)
  <2>1. /\ wire'[r] = Append(wire[r], "tool_execution") /\ "tool_execution" \in Frame
        /\ text'[r] = text[r] /\ tools'[r] = tools[r] + 1
        /\ pc'[r] = "stream" /\ pc[r] = "stream"
    BY <1>6 DEF StreamTool, Send, Frame
  <2>2. Counted(r)' BY <1>4, <2>1 DEF Counted
  <2> QED BY <2>1, <2>2
<1>7. CASE StreamAbandon(r)
  <2>1. Counted(r)'
    BY <1>7, CountRests DEF StreamAbandon
  <2> QED BY <1>7, <2>1 DEF StreamAbandon, Settle
<1>8. CASE StreamDone(r) \/ StreamError(r)
  <2>1. PICK f \in {"done", "error"} : wire'[r] = Append(wire[r], f)
    BY <1>8 DEF StreamDone, StreamError, Send
  <2>2. f \in Frame /\ f # "token" /\ f # "tool_execution" BY <2>1 DEF Frame, Terminal
  <2>3. pc[r] = "stream" /\ text'[r] = text[r] /\ tools'[r] = tools[r]
    BY <1>8 DEF StreamDone, StreamError
  <2>4. /\ Count(r, "token")' = Count(r, "token") + 0
        /\ Count(r, "tool_execution")' = Count(r, "tool_execution") + 0
        /\ Count(r, "token") \in Nat /\ Count(r, "tool_execution") \in Nat
    BY <1>4, <2>1, <2>2
  <2>5. Counted(r)' BY <2>3, <2>4 DEF Counted
  <2>6. pc'[r] \in {"saveAnswer", "done"}
    BY <1>8 DEF StreamDone, StreamError, Settle
  <2> QED BY <2>5, <2>6
<1>9. CASE JsonAnswer(r)
  <2>1. wire'[r] = <<"json">> BY <1>9 DEF JsonAnswer, Send, Response, Silent
  <2>2. wire'[r][1] # "start" BY <2>1
  <2> QED BY <1>9, <2>2 DEF JsonAnswer, Settle
<1>10. CASE JsonError(r)
  BY <1>10 DEF JsonError
<1>11. CASE SaveAnswer(r)
  BY <1>11 DEF SaveAnswer, Insert
<1>12. CASE Touch(r) \/ ErrorHandler(r)
  BY <1>12 DEF Touch, ErrorHandler, Write
<1>13. CASE Disconnect(r)
  BY <1>13, CountRests DEF Disconnect
<1> QED
  BY <1>1, <1>2, <1>3, <1>5, <1>6, <1>7, <1>8, <1>9, <1>10, <1>11, <1>12, <1>13, OwnStep
     DEF Acts, Handler

\* The row says how its response ended.
Sent(r, row) ==
  /\ ended[r]
  /\ row.incomplete <=> ~Succeeded(r)
  /\ wire[r][1] = "start" =>
       /\ row.text = Count(r, "token")
       /\ row.tools = Count(r, "tool_execution")

LEMMA SentStays ==
  ASSUME RInv, [Next]_vars, NEW r \in Requests, NEW row, Sent(r, row)
  PROVE  Sent(r, row)'
<1>1. WireStep(r)
  BY WireSteps DEF RInv, IInv
<1>2. wire'[r] = wire[r] /\ ended'[r] /\ ended[r]
  BY <1>1 DEF WireStep, Sent
<1> QED BY <1>2 DEF Sent, Succeeded, LastFrame, Count

LEMMA AnswerIsSent ==
  ASSUME RInv, NEW r \in Requests, pc[r] = "saveAnswer", Tally(r)
  PROVE  Sent(r, Answer(r))
BY DEF RInv, Response, Over, Tally, Counted, Sent, Answer

SInv == RInv /\ (\A r \in Requests : Tally(r)) /\ StoredIsSent

LEMMA SInvInit == Init => SInv
<1> SUFFICES ASSUME Init PROVE SInv OBVIOUS
<1>1. \A r \in Requests : Tally(r) BY DEF Init, Tally
<1>2. \A r \in Requests : DOMAIN Rows(r) = {} BY TargetAssumption DEF Init, Rows
<1> QED BY <1>1, <1>2, RInvInit DEF SInv, StoredIsSent, AnswerAt

LEMMA StoredIsSentStep == SInv /\ [Next]_vars => StoredIsSent'
<1> SUFFICES ASSUME SInv, [Next]_vars,
                    NEW q \in Requests, NEW i \in DOMAIN log'[Target[q]], AnswerAt(q, i)',
                    NEW row, row = log'[Target[q]][i]
             PROVE  Sent(q, row)'
  BY DEF StoredIsSent, Sent, Rows
<1> DEFINE d == Target[q]
<1>0. RInv /\ TypeOK /\ d \in Chats
  BY TargetAssumption DEF SInv, RInv, IInv
<1>1. row.from = q /\ row.role = "ASSISTANT"
  BY DEF AnswerAt, Rows
<1>2. Sent(q, row) => Sent(q, row)'
  BY <1>0, SentStays
<1>3. CASE i \in DOMAIN log[d] /\ log'[d][i] = log[d][i]
  <2>1. Sent(q, row)
    BY <1>1, <1>3 DEF SInv, StoredIsSent, Sent, AnswerAt, Rows
  <2> QED BY <1>2, <2>1
<1>4. ASSUME NEW r \in Requests, Inserts(r, "saveUser", Prompt(r))
      PROVE  i \in DOMAIN log[d] /\ log'[d][i] = log[d][i]
  BY <1>0, <1>1, <1>4, InsertedRow, RowTypes, RowFields, TargetAssumption DEF Inserts
<1>5. ASSUME NEW r \in Requests, Inserts(r, "saveAnswer", Answer(r)),
             ~(i \in DOMAIN log[d] /\ log'[d][i] = log[d][i])
      PROVE  Sent(q, row)'
  <2>1. row = Answer(r)
    BY <1>0, <1>5, InsertedRow, RowTypes, TargetAssumption DEF Inserts
  <2>2. r = q BY <1>1, <2>1, RowFields
  <2>3. Sent(r, Answer(r))
    BY <1>0, <1>5, AnswerIsSent DEF Inserts, SInv
  <2> QED BY <1>2, <2>1, <2>2, <2>3
<1> QED BY <1>0, <1>3, <1>4, <1>5, LogMoves, DeletedRow DEF NoInsert

LEMMA SInvStep == SInv /\ [Next]_vars => SInv'
<1> SUFFICES ASSUME SInv, [Next]_vars PROVE SInv' OBVIOUS
<1>1. RInv /\ TypeOK BY DEF SInv, RInv, IInv
<1>2. ASSUME NEW r \in Requests PROVE Tally(r)'
  BY <1>1, TallyStep DEF SInv, RInv
<1> QED BY <1>1, <1>2, RInvStep, StoredIsSentStep DEF SInv

LEMMA SInvCorrect == Spec => []SInv
BY SInvInit, SInvStep, PTL DEF Spec

-----------------------------------------------------------------------------
(* Theorems about the response *)

\* One JSON body or one SSE stream with at most one ending, whatever flag is
\* flipped under way and whatever fails after the strategy ended the response.
THEOREM WireWellFormedCorrect == Spec => []WireWellFormed
<1>1. RInv => WireWellFormed
  <2> SUFFICES ASSUME RInv, NEW r \in Requests, NEW i \in DOMAIN wire[r]
               PROVE  /\ wire[r][i] \in Terminal => i = Len(wire[r]) /\ ended[r]
                      /\ wire[r][i] \in {"json", "refusal"} => i = 1
                      /\ wire[r][i] = "start" <=> i = 1 /\ wire[r][1] \notin {"json", "refusal"}
    BY DEF WireWellFormed
  <2>1. Response(r) /\ pc[r] \in Control /\ wire[r] \in Seq(Frame)
    BY DEF RInv, IInv, TypeOK
  <2>2. i \in 1..Len(wire[r]) /\ Len(wire[r]) \in Nat BY <2>1
  <2>3. \/ wire[r] = <<>>
        \/ Opened(wire[r])
        \/ ended[r] /\ (Closed(wire[r]) \/ wire[r] = <<"json">> \/ wire[r] = <<"refusal">>)
    BY <2>1 DEF Response, Control, Unanswered, Silent, Over
  <2>4. CASE wire[r] = <<>> BY <2>4
  <2>5. CASE Opened(wire[r]) BY <2>2, <2>5 DEF Opened, Chunks, Terminal
  <2>6. CASE ended[r] /\ Closed(wire[r]) BY <2>2, <2>6 DEF Closed, Chunks, Terminal
  <2>7. CASE ended[r] /\ (wire[r] = <<"json">> \/ wire[r] = <<"refusal">>)
    <3>1. Len(wire[r]) = 1 /\ wire[r][1] \in {"json", "refusal"} BY <2>7
    <3>2. i = 1 BY <2>2, <3>1
    <3>3. QED BY <2>7, <3>1, <3>2
  <2>8. QED BY <2>3, <2>4, <2>5, <2>6, <2>7
<1>2. QED BY <1>1, RInvCorrect, PTL

\* An answer row has the chunks and the tool calls of the stream it was sent
\* in, and is marked incomplete exactly when that stream did not end in `done`.
THEOREM StoredIsSentCorrect == Spec => []StoredIsSent
<1>1. SInv => StoredIsSent BY DEF SInv
<1>2. QED BY <1>1, SInvCorrect, PTL

\* A rejected request was refused, or its response was over before the error.
THEOREM RefusalIsToldCorrect == Spec => []RefusalIsTold
<1>1. RInv => RefusalIsTold
  BY DEF RInv, Response, Over, Closed, RefusalIsTold
<1>2. QED BY <1>1, RInvCorrect, PTL

\* A request that is over kept its text, was rejected, or lost its chat.
THEOREM NoSilentLossCorrect == Spec => []NoSilentLoss
<1>1. RInv => NoSilentLoss
  BY DEF RInv, IInv, TypeOK, AnswerKept, NoSilentLoss
<1>2. QED BY <1>1, RInvCorrect, PTL

\* Once the disconnect was noticed the answer grows no more.
THEOREM StopsAfterNoticeCorrect == Spec => StopsAfterNotice
<1>1. ASSUME RInv, [Next]_vars, NEW r \in Requests
      PROVE  WireStep(r)
  BY <1>1, WireSteps DEF RInv, IInv
<1>2. RInv /\ [Next]_vars =>
        \A r \in Requests : clientClosed[r] =>
          /\ text'[r] = text[r] /\ tools'[r] = tools[r]
          /\ wire'[r] \in {wire[r], Append(wire[r], "done"), Append(wire[r], "error")}
  BY <1>1 DEF WireStep
<1>3. QED BY <1>2, RInvCorrect, PTL DEF Spec, StopsAfterNotice

-----------------------------------------------------------------------------
(***************************************************************************)
(* The refinement.  A step changes the record of one request or the reply  *)
(* of one request, as a step of Exchange, or deletes a chat.               *)
(***************************************************************************)

Prompted(r) == \E i \in DOMAIN Rows(r) : PromptAt(r, i)
Partial(r) == \E i \in DOMAIN Rows(r) : AnswerAt(r, i) /\ Rows(r)[i].incomplete

LEMMA RecordForm ==
  ASSUME NEW r \in Requests
  PROVE  /\ RecordOf(r) =
              IF Gone(r) THEN "gone"
              ELSE IF Answered(r) THEN IF Partial(r) THEN "partial" ELSE "complete"
              ELSE IF Prompted(r) THEN "prompt" ELSE "none"
         /\ RecordOf(r)' =
              IF Gone(r)' THEN "gone"
              ELSE IF Answered(r)' THEN IF Partial(r)' THEN "partial" ELSE "complete"
              ELSE IF Prompted(r)' THEN "prompt" ELSE "none"
BY DEF RecordOf, Partial, Prompted

LEMMA RecordRests ==
  ASSUME UNCHANGED <<chats, log>>, NEW r \in Requests
  PROVE  RecordOf(r)' = RecordOf(r)
BY DEF RecordOf, Gone, Answered, AnswerAt, PromptAt, Rows, Prompt

LEMMA ReplyRests ==
  ASSUME NEW r \in Requests, wire'[r] = wire[r], ended'[r] = ended[r]
  PROVE  ReplyOf(r)' = ReplyOf(r)
BY DEF ReplyOf, Succeeded, LastFrame

\* An insert is seen in the record of its own request only.
LEMMA RecordOfOthers ==
  ASSUME TypeOK, NEW r \in Requests, NEW row \in Row, row.from = r,
         NEW at, Inserts(r, at, row), NEW q \in Requests \ {r}
  PROVE  RecordOf(q)' = RecordOf(q)
<1> DEFINE d == Target[q]
<1>1. Target[r] \in Chats /\ d \in Chats BY TargetAssumption
<1>2. \A i \in DOMAIN log[d] : i \in DOMAIN log'[d] /\ log'[d][i] = log[d][i]
  BY <1>1, AppendedRows DEF Inserts
<1>3. \A i \in DOMAIN log'[d] :
        (i \in DOMAIN log[d] /\ log'[d][i] = log[d][i]) \/ log'[d][i] = row
  BY <1>1, InsertedRow DEF Inserts
<1>4. Prompt(q).from = q BY RowFields
<1>5. Gone(q)' = Gone(q) BY DEF Gone, Inserts
<1>6. Prompted(q)' <=> Prompted(q)
  BY <1>2, <1>3, <1>4 DEF Prompted, PromptAt, Rows, Prompt
<1>7. Answered(q)' <=> Answered(q)
  BY <1>2, <1>3 DEF Answered, AnswerAt, Rows
<1>8. Partial(q)' <=> Partial(q)
  BY <1>2, <1>3 DEF Partial, AnswerAt, Rows
<1>9. QED BY <1>5, <1>6, <1>7, <1>8, RecordForm

\* An inserted row is in the chat, and the rows before it stay.
LEMMA OwnRows ==
  ASSUME TypeOK, NEW r \in Requests, NEW row \in Row, NEW at, Inserts(r, at, row)
  PROVE  /\ \E i \in DOMAIN log'[Target[r]] : log'[Target[r]][i] = row
         /\ \A i \in DOMAIN log'[Target[r]] :
              log'[Target[r]][i] = row \/ \E j \in DOMAIN log[Target[r]] : log'[Target[r]][i] = log[Target[r]][j]
<1> DEFINE d == Target[r]
           n == Len(log[d]) + 1
<1>1. d \in Chats BY TargetAssumption
<1>2. n \in DOMAIN log'[d] /\ log'[d][n] = row
  <2>1. log' = [log EXCEPT ![d] = Append(@, row)] BY DEF Inserts
  <2>2. /\ DOMAIN log'[d] = 1..(Len(log[d]) + 1) /\ Len(log[d]) \in Nat
        /\ log'[d][Len(log[d]) + 1] = row
    BY <1>1, <2>1, AppendedRows
  <2>3. QED BY <2>2
<1>3. \A i \in DOMAIN log'[d] :
        (i \in DOMAIN log[d] /\ log'[d][i] = log[d][i]) \/ log'[d][i] = row
  BY <1>1, InsertedRow DEF Inserts
<1> HIDE DEF n
<1>4. QED BY <1>2, <1>3

LEMMA RecordOfPrompt ==
  ASSUME IInv, NEW r \in Requests, Inserts(r, "saveUser", Prompt(r))
  PROVE  RecordOf(r) = "none" /\ RecordOf(r)' = "prompt"
<1> DEFINE d == Target[r]
<1>0. TypeOK /\ d \in Chats BY TargetAssumption DEF IInv
<1>1. \A i \in DOMAIN log[d] : log[d][i].from # r
  BY <1>0 DEF Inserts, IInv, NothingBeforePrompt, BeforePrompt
<1>2. /\ \E i \in DOMAIN log'[d] : log'[d][i] = Prompt(r)
      /\ \A i \in DOMAIN log'[d] : log'[d][i].from = r => log'[d][i] = Prompt(r)
  BY <1>0, <1>1, OwnRows, RowTypes
<1>3. Prompt(r).from = r /\ Prompt(r).role = "USER" BY RowFields
<1>4. ~Gone(r) /\ ~Gone(r)' BY DEF Gone, Inserts
<1>5. ~Answered(r) /\ ~Prompted(r)
  BY <1>1, <1>3 DEF Answered, AnswerAt, Prompted, PromptAt, Rows
<1>6. ~Answered(r)' BY <1>2, <1>3 DEF Answered, AnswerAt, Rows
<1>7. Prompted(r)' BY <1>2 DEF Prompted, PromptAt, Rows, Prompt
<1>8. QED BY <1>4, <1>5, <1>6, <1>7, RecordForm

\* From the moment the prompt is stored until the answer is.
LEMMA PromptOnly ==
  ASSUME IInv, NEW r \in Requests, pc[r] \in BeforeAnswer
  PROVE  RecordOf(r) = IF Gone(r) THEN "gone" ELSE "prompt"
<1>1. ~Answered(r)
  BY TargetAssumption DEF IInv, NoAnswerBeforeSave, Answered, AnswerAt, Rows
<1>2. Gone(r) \/ Prompted(r)
  BY DEF IInv, PromptKept, Stored, Prompted
<1>3. QED BY <1>1, <1>2, RecordForm

LEMMA RecordOfAnswer ==
  ASSUME IInv, NEW r \in Requests, Inserts(r, "saveAnswer", Answer(r))
  PROVE  /\ RecordOf(r) = "prompt"
         /\ RecordOf(r)' = IF incomplete[r] THEN "partial" ELSE "complete"
<1> DEFINE d == Target[r]
<1>0. TypeOK /\ d \in Chats BY TargetAssumption DEF IInv
<1>1. ~Gone(r) /\ ~Gone(r)' BY DEF Gone, Inserts
<1>2. RecordOf(r) = "prompt" BY <1>1, PromptOnly DEF Inserts, BeforeAnswer
<1>3. \A i \in DOMAIN log[d] : log[d][i].from = r => log[d][i].role = "USER"
  BY <1>0 DEF Inserts, IInv, NoAnswerBeforeSave, BeforeAnswer
<1>4. Answer(r).from = r /\ Answer(r).role = "ASSISTANT" /\ Answer(r).incomplete = incomplete[r]
  BY DEF Answer
<1>5. /\ \E i \in DOMAIN log'[d] : log'[d][i] = Answer(r)
      /\ \A i \in DOMAIN log'[d] :
           log'[d][i].from = r /\ log'[d][i].role = "ASSISTANT" => log'[d][i] = Answer(r)
  BY <1>0, <1>3, OwnRows, RowTypes
<1>6. Answered(r)' BY <1>4, <1>5 DEF Answered, AnswerAt, Rows
<1>7. Partial(r)' <=> incomplete[r] BY <1>4, <1>5 DEF Partial, AnswerAt, Rows
<1>8. QED BY <1>1, <1>2, <1>6, <1>7, RecordForm

(* A response starts or succeeds for a prompt the chat has had, and refuses *)
(* or breaks otherwise.                                                     *)
ReplyStep(r) ==
  \/ ReplyOf(r)' = ReplyOf(r)
  \/ /\ ReplyOf(r) = "none" /\ ReplyOf(r)' = "open"
     /\ RecordOf(r) \in {"prompt", "gone"}
  \/ /\ ReplyOf(r) \in {"none", "open"} /\ ReplyOf(r)' = "success"
     /\ RecordOf(r) \in {"prompt", "gone"}
  \/ ReplyOf(r) = "open" /\ ReplyOf(r)' = "broken"
  \/ ReplyOf(r) = "none" /\ ReplyOf(r)' = "refused"

LEMMA ReplySteps ==
  ASSUME RInv, [Next]_vars, NEW r \in Requests, Acts(r)
  PROVE  ReplyStep(r)
<1>1. TypeOK /\ Response(r) BY DEF RInv, IInv
<1>2. wire[r] \in Seq(Frame) BY <1>1 DEF TypeOK
<1>3. pc[r] \in BeforeAnswer => RecordOf(r) \in {"prompt", "gone"}
  BY PromptOnly DEF RInv
<1>4. ASSUME NEW w \in Seq(Frame), NEW f \in Frame
      PROVE  Append(w, f) # <<>> /\ Append(w, f)[Len(Append(w, f))] = f
  BY <1>4, Appended
<1>5. CASE wire'[r] = wire[r] /\ ended'[r] = ended[r]
  BY <1>5, ReplyRests DEF ReplyStep
<1>6. CASE Resolve(r)
  <2>1. wire[r] = <<>> /\ ~ended[r] /\ ~ended'[r] /\ pc[r] \in BeforeAnswer
    BY <1>1, <1>6 DEF Resolve, Response, Unanswered, Silent, BeforeAnswer
  <2>2. wire'[r] = <<>> \/ wire'[r] = <<"start">> BY <1>1, <1>6, <2>1 DEF Resolve, TypeOK
  <2>3. QED BY <1>3, <2>1, <2>2 DEF ReplyStep, ReplyOf, Succeeded
<1>7. CASE StreamText(r) \/ StreamTool(r)
  <2>1. wire[r] # <<>> /\ wire'[r] # <<>> /\ ~ended[r] /\ ~ended'[r]
    <3>1. wire[r] # <<>> /\ ~ended[r] /\ ~ended'[r]
      BY <1>1, <1>7 DEF StreamText, StreamTool, Response, Opened
    <3>2. PICK x \in Frame : wire'[r] = Append(wire[r], x)
      BY <1>1, <1>7 DEF StreamText, StreamTool, Send, TypeOK, Frame
    <3>3. QED BY <1>2, <1>4, <3>1, <3>2
  <2>2. QED BY <2>1 DEF ReplyStep, ReplyOf, Succeeded
<1>8. CASE StreamAbandon(r)
  <2>1. ended'[r] /\ ~ended[r] /\ wire'[r] = wire[r] /\ Opened(wire[r])
    BY <1>1, <1>8 DEF StreamAbandon, End, Response, TypeOK
  <2>2. wire[r] # <<>> /\ LastFrame(r) \notin {"done", "json"} /\ wire[r] # <<"refusal">>
    BY <1>2, <2>1, OpenIsNoSuccess DEF LastFrame, Opened
  <2>3. QED BY <2>1, <2>2 DEF ReplyStep, ReplyOf, Succeeded, LastFrame
<1>9. CASE StreamDone(r) \/ StreamError(r)
  <2>1. ended'[r] /\ ~ended[r] /\ Opened(wire[r]) /\ pc[r] \in BeforeAnswer
    BY <1>1, <1>9 DEF StreamDone, StreamError, End, Response, TypeOK, BeforeAnswer
  <2>2. wire[r] # <<>> BY <2>1 DEF Opened
  <2>3. ReplyOf(r) = "open" BY <2>1, <2>2 DEF ReplyOf, Succeeded
  <2>4. CASE StreamDone(r)
    <3>1. wire'[r] = Append(wire[r], "done") /\ "done" \in Frame
      BY <1>1, <2>4 DEF StreamDone, Send, TypeOK, Frame, Terminal
    <3>2. wire'[r] # <<>> /\ LastFrame(r)' = "done" BY <1>2, <1>4, <3>1 DEF LastFrame
    <3>3. wire'[r] # <<"refusal">> BY <3>2 DEF LastFrame
    <3>4. ReplyOf(r)' = "success" BY <2>1, <3>2, <3>3 DEF ReplyOf, Succeeded
    <3>5. QED BY <1>3, <2>1, <2>3, <3>4 DEF ReplyStep
  <2>5. CASE StreamError(r)
    <3>1. wire'[r] = Append(wire[r], "error") /\ "error" \in Frame
      BY <1>1, <2>5 DEF StreamError, Send, TypeOK, Frame, Terminal
    <3>2. LastFrame(r)' = "error" /\ wire'[r][1] = "start"
      BY <1>2, <1>4, <2>1, <3>1, Appended DEF LastFrame, Closed
    <3>3. wire'[r] # <<"refusal">> BY <3>2
    <3>4. QED BY <2>1, <2>3, <3>2, <3>3 DEF ReplyStep, ReplyOf, Succeeded
  <2>6. QED BY <1>9, <2>4, <2>5
<1>10. CASE JsonAnswer(r)
  <2>1. ended'[r] /\ ~ended[r] /\ wire[r] = <<>> /\ pc[r] \in BeforeAnswer
    BY <1>1, <1>10 DEF JsonAnswer, End, Response, Unanswered, Silent, TypeOK, BeforeAnswer
  <2>2. wire'[r] = <<"json">> BY <1>1, <1>10, <2>1 DEF JsonAnswer, Send, TypeOK
  <2>3. wire'[r] # <<>> /\ LastFrame(r)' = "json" BY <2>2 DEF LastFrame
  <2>4. QED BY <1>3, <2>1, <2>3 DEF ReplyStep, ReplyOf, Succeeded
<1>11. CASE ErrorHandler(r)
  <2>1. CASE ended[r]
    <3>1. wire'[r] = wire[r] /\ ended'[r] = ended[r]
      BY <1>1, <1>11, <2>1 DEF ErrorHandler, Write, End, TypeOK
    <3>2. QED BY <3>1, ReplyRests DEF ReplyStep
  <2>2. CASE ~ended[r]
    <3>1. wire[r] = <<>> /\ ended'[r]
      BY <1>1, <1>11, <2>2 DEF ErrorHandler, Write, End, Response, Silent, Over, TypeOK
    <3>2. wire'[r] = <<"refusal">>
      BY <1>1, <1>11, <2>2, <3>1 DEF ErrorHandler, Write, Send, HeadersSent, TypeOK
    <3>3. LastFrame(r)' = "refusal" BY <3>2 DEF LastFrame
    <3>4. QED BY <2>2, <3>1, <3>2, <3>3 DEF ReplyStep, ReplyOf, Succeeded
  <2>3. QED BY <2>1, <2>2
<1>12. CASE Arrive(r) \/ FindChat(r) \/ SaveUser(r) \/ ReadContext(r)
  BY <1>5, <1>12 DEF Arrive, FindChat, SaveUser, ReadContext
<1>13. CASE JsonError(r) \/ SaveAnswer(r) \/ Touch(r) \/ Disconnect(r)
  BY <1>5, <1>13 DEF JsonError, SaveAnswer, Touch, Disconnect
<1>14. QED
  BY <1>6, <1>7, <1>8, <1>9, <1>10, <1>11, <1>12, <1>13 DEF Acts, Handler

\* An answer is stored after its response was over, as it ended.
LEMMA ReplyOfAnswer ==
  ASSUME RInv, NEW r \in Requests, pc[r] = "saveAnswer"
  PROVE  ReplyOf(r) = IF incomplete[r] THEN "broken" ELSE "success"
<1>1. Over(r) BY DEF RInv, Response
<1>2. wire[r][1] \in {"start", "json"} /\ wire[r] # <<>> BY <1>1 DEF Over, Closed
<1>3. wire[r] # <<"refusal">> BY <1>2
<1>4. QED BY <1>1, <1>2, <1>3 DEF Over, ReplyOf, Succeeded

LEMMA InitRefines == Init => Contract!Init
<1> SUFFICES ASSUME Init, NEW r \in Requests
             PROVE  RecordOf(r) = "none" /\ ReplyOf(r) = "none"
  BY DEF Contract!Init
<1>1. ~Gone(r) /\ DOMAIN Rows(r) = {}
  BY TargetAssumption DEF Init, Gone, Rows
<1>2. ~Answered(r) /\ ~Prompted(r)
  BY <1>1 DEF Answered, AnswerAt, Prompted, PromptAt
<1>3. RecordOf(r) = "none" BY <1>1, <1>2, RecordForm
<1>4. ReplyOf(r) = "none" BY DEF Init, ReplyOf, Succeeded
<1>5. QED BY <1>3, <1>4

\* What changes for one request only is a step of Exchange.
LEMMA ReplyRefines ==
  ASSUME NEW r \in Requests, ReplyStep(r),
         \A q \in Requests : RecordOf(q)' = RecordOf(q),
         \A q \in Requests \ {r} : ReplyOf(q)' = ReplyOf(q)
  PROVE  [Contract!Next]_(Contract!vars)
<1>1. [q \in Requests |-> RecordOf(q)]' = [q \in Requests |-> RecordOf(q)]
  OBVIOUS
<1>2. [q \in Requests |-> ReplyOf(q)]' =
        [[q \in Requests |-> ReplyOf(q)] EXCEPT ![r] = ReplyOf(r)']
  OBVIOUS
<1>3. CASE ReplyOf(r)' = ReplyOf(r)
  BY <1>1, <1>2, <1>3 DEF Contract!vars
<1>4. CASE ReplyOf(r)' # ReplyOf(r)
  <2>1. Contract!Open(r) \/ Contract!Succeed(r) \/ Contract!Break(r) \/ Contract!Refuse(r)
    BY <1>1, <1>2, <1>4 DEF ReplyStep, Contract!Open, Contract!Succeed, Contract!Break,
       Contract!Refuse, Contract!Remembered, Contract!Reply1
  <2>2. QED BY <2>1 DEF Contract!Next
<1>5. QED BY <1>3, <1>4

LEMMA RecordRefines ==
  ASSUME NEW r \in Requests,
         \A q \in Requests : ReplyOf(q)' = ReplyOf(q),
         \A q \in Requests \ {r} : RecordOf(q)' = RecordOf(q),
         \/ RecordOf(r) = "none" /\ ReplyOf(r) = "none" /\ RecordOf(r)' = "prompt"
         \/ RecordOf(r) = "prompt" /\ ReplyOf(r) = "success" /\ RecordOf(r)' = "complete"
         \/ RecordOf(r) = "prompt" /\ ReplyOf(r) = "broken" /\ RecordOf(r)' = "partial"
  PROVE  Contract!Next
<1>1. [q \in Requests |-> ReplyOf(q)]' = [q \in Requests |-> ReplyOf(q)]
  OBVIOUS
<1>2. [q \in Requests |-> RecordOf(q)]' =
        [[q \in Requests |-> RecordOf(q)] EXCEPT ![r] = RecordOf(r)']
  OBVIOUS
<1>3. Contract!StorePrompt(r) \/ Contract!StoreAnswer(r)
  BY <1>1, <1>2 DEF Contract!StorePrompt, Contract!StoreAnswer, Contract!Record1
<1>4. QED BY <1>3 DEF Contract!Next

LEMMA DeleteRefines ==
  ASSUME TypeOK, NEW c \in Chats, DeleteChat(c)
  PROVE  Contract!Next
<1>1. \A q \in Requests : ReplyOf(q)' = ReplyOf(q)
  BY ReplyRests DEF DeleteChat
<1>2. ASSUME NEW q \in Requests
      PROVE  RecordOf(q)' \in {RecordOf(q), "gone"} /\ RecordOf(q)' \in Contract!Record
  <2>1. Target[q] \in Chats BY TargetAssumption
  <2>2. RecordOf(q)' \in Contract!Record BY RecordForm DEF Contract!Record
  <2>3. CASE Target[q] = c
    <3>1. Gone(q)' BY <2>3 DEF Gone, DeleteChat
    <3>2. QED BY <2>2, <3>1, RecordForm
  <2>4. CASE Target[q] # c
    <3>1. log'[Target[q]] = log[Target[q]] BY <2>1, <2>4 DEF DeleteChat, TypeOK
    <3>2. Gone(q)' = Gone(q) BY <2>4 DEF Gone, DeleteChat
    <3>3. /\ Answered(q)' = Answered(q) /\ Partial(q)' = Partial(q)
          /\ Prompted(q)' = Prompted(q)
      BY <3>1 DEF Answered, Partial, Prompted, AnswerAt, PromptAt, Rows, Prompt
    <3>4. QED BY <2>2, <3>2, <3>3, RecordForm
  <2>5. QED BY <2>3, <2>4
<1>3. Contract!Erase BY <1>1, <1>2 DEF Contract!Erase
<1>4. QED BY <1>3 DEF Contract!Next

LEMMA StepRefines == RInv /\ [Next]_vars => [Contract!Next]_(Contract!vars)
<1> SUFFICES ASSUME RInv, [Next]_vars PROVE [Contract!Next]_(Contract!vars) OBVIOUS
<1>0. IInv /\ TypeOK BY DEF RInv, IInv
<1>1. ASSUME NEW c \in Chats, DeleteChat(c) PROVE Contract!Next
  BY <1>0, <1>1, DeleteRefines
<1>2. CASE FlipStreaming \/ FlipTools \/ UNCHANGED vars
  <2>1. UNCHANGED <<chats, log, wire, ended>>
    BY <1>2 DEF FlipStreaming, FlipTools, vars
  <2>2. \A q \in Requests : RecordOf(q)' = RecordOf(q) /\ ReplyOf(q)' = ReplyOf(q)
    BY <2>1, RecordRests, ReplyRests
  <2>3. QED BY <2>2 DEF Contract!vars
<1>3. ASSUME NEW r \in Requests, Acts(r) PROVE [Contract!Next]_(Contract!vars)
  <2>1. \A q \in Requests \ {r} : ReplyOf(q)' = ReplyOf(q)
    BY <1>0, <1>3, OthersRest, ReplyRests DEF Rests
  <2>2. CASE UNCHANGED <<chats, log>>
    <3>1. \A q \in Requests : RecordOf(q)' = RecordOf(q) BY <2>2, RecordRests
    <3>2. QED BY <1>3, <2>1, <3>1, ReplySteps, ReplyRefines
  <2>3. ASSUME NEW row \in {Prompt(r), Answer(r)}, NEW at, Inserts(r, at, row),
               wire' = wire, ended' = ended
        PROVE  /\ \A q \in Requests : ReplyOf(q)' = ReplyOf(q)
               /\ \A q \in Requests \ {r} : RecordOf(q)' = RecordOf(q)
    BY <1>0, <2>3, RowTypes, RowFields, ReplyRests, RecordOfOthers
  <2>4. CASE SaveUser(r) /\ Inserts(r, "saveUser", Prompt(r))
    <3>1. wire' = wire /\ ended' = ended BY <2>4 DEF SaveUser
    <3>2. wire[r] = <<>> /\ ~ended[r]
      BY <2>4 DEF SaveUser, RInv, Response, Unanswered, Silent
    <3>3. ReplyOf(r) = "none" BY <3>2 DEF ReplyOf, Succeeded
    <3>4. RecordOf(r) = "none" /\ RecordOf(r)' = "prompt" BY <1>0, <2>4, RecordOfPrompt
    <3>5. QED BY <2>3, <2>4, <3>1, <3>3, <3>4, RecordRefines
  <2>5. CASE SaveAnswer(r) /\ Inserts(r, "saveAnswer", Answer(r))
    <3>1. wire' = wire /\ ended' = ended BY <2>5 DEF SaveAnswer
    <3>2. ReplyOf(r) = IF incomplete[r] THEN "broken" ELSE "success"
      BY <2>5, ReplyOfAnswer DEF SaveAnswer
    <3>3. /\ RecordOf(r) = "prompt"
          /\ RecordOf(r)' = IF incomplete[r] THEN "partial" ELSE "complete"
      BY <1>0, <2>5, RecordOfAnswer
    <3>4. QED BY <2>3, <2>5, <3>1, <3>2, <3>3, RecordRefines
  <2>6. \/ UNCHANGED <<chats, log>>
        \/ SaveUser(r) /\ Inserts(r, "saveUser", Prompt(r))
        \/ SaveAnswer(r) /\ Inserts(r, "saveAnswer", Answer(r))
    <3> USE <1>0 DEF Inserts, Insert, Goto, Reject, TypeOK
    <3>1. CASE SaveUser(r) BY <3>1 DEF SaveUser
    <3>2. CASE SaveAnswer(r) BY <3>2 DEF SaveAnswer
    <3>3. CASE Arrive(r) \/ FindChat(r) \/ ReadContext(r) \/ Resolve(r) \/ Touch(r)
      BY <3>3 DEF Arrive, FindChat, ReadContext, Resolve, Touch
    <3>4. CASE StreamText(r) \/ StreamTool(r) \/ StreamAbandon(r) \/ StreamDone(r) \/ StreamError(r)
      BY <3>4 DEF StreamText, StreamTool, StreamAbandon, StreamDone, StreamError
    <3>5. CASE JsonAnswer(r) \/ JsonError(r) \/ ErrorHandler(r) \/ Disconnect(r)
      BY <3>5 DEF JsonAnswer, JsonError, ErrorHandler, Write, Disconnect
    <3>6. QED BY <1>3, <3>1, <3>2, <3>3, <3>4, <3>5 DEF Acts, Handler
  <2>7. QED BY <2>2, <2>4, <2>5, <2>6
<1>4. QED BY <1>1, <1>2, <1>3 DEF Next, Acts

\* The completion path implements Exchange: no interleaving, failure, hang-up
\* or deletion lets a response and what its chat remembers disagree.
THEOREM KeepsContractCorrect == Spec => KeepsContract
BY InitRefines, StepRefines, RInvCorrect, PTL DEF Spec, KeepsContract, Contract!Spec

LEMMA MatchInit == Contract!Init => Contract!RecordMatchesReply
BY DEF Contract!Init, Contract!RecordMatchesReply

LEMMA MatchStep ==
  Contract!RecordMatchesReply /\ [Contract!Next]_(Contract!vars) => Contract!RecordMatchesReply'
<1> USE DEF Contract!RecordMatchesReply
<1> SUFFICES ASSUME Contract!RecordMatchesReply, [Contract!Next]_(Contract!vars)
             PROVE  Contract!RecordMatchesReply'
  OBVIOUS
<1>1. ASSUME NEW r \in Requests, Contract!StorePrompt(r) \/ Contract!StoreAnswer(r)
      PROVE  Contract!RecordMatchesReply'
  BY <1>1 DEF Contract!StorePrompt, Contract!StoreAnswer, Contract!Record1
<1>2. ASSUME NEW r \in Requests,
             Contract!Open(r) \/ Contract!Succeed(r) \/ Contract!Break(r) \/ Contract!Refuse(r)
      PROVE  Contract!RecordMatchesReply'
  BY <1>2 DEF Contract!Open, Contract!Succeed, Contract!Break, Contract!Refuse,
     Contract!Remembered, Contract!Reply1
<1>3. CASE Contract!Erase BY <1>3 DEF Contract!Erase
<1>4. CASE UNCHANGED Contract!vars BY <1>4 DEF Contract!vars
<1>5. QED BY <1>1, <1>2, <1>3, <1>4 DEF Contract!Next

\* A row marked whole belongs to a response that succeeded, a row marked
\* incomplete to one that broke off, and no byte goes out for an unstored prompt.
THEOREM RecordMatchesReplyCorrect == Spec => []Contract!RecordMatchesReply
BY MatchInit, MatchStep, InitRefines, StepRefines, RInvCorrect, PTL DEF Spec

=============================================================================
