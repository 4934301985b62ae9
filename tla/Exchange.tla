------------------------------ MODULE Exchange ------------------------------
(***************************************************************************)
(* What POST .../completion promises about each request, whatever happens  *)
(* to the others: how its response and the memory of its chat go together. *)
(* It knows neither the database, the AI provider, nor the event loop.     *)
(***************************************************************************)

CONSTANT Requests

VARIABLES
  record,  \* what the chat remembers of the request
  reply    \* what the response says

vars == <<record, reply>>

Record == {"none", "prompt", "partial", "complete", "gone"}

\* The prompt was stored; it may since have been deleted with its chat.
Remembered(r) == record[r] \in {"prompt", "gone"}

Init ==
  /\ record \in [Requests -> {"none"}]
  /\ reply \in [Requests -> {"none"}]

Record1(r, new) == record' = [record EXCEPT ![r] = new] /\ UNCHANGED reply
Reply1(r, new) == reply' = [reply EXCEPT ![r] = new] /\ UNCHANGED record

\* The prompt is stored before a byte of the response.
StorePrompt(r) == record[r] = "none" /\ reply[r] = "none" /\ Record1(r, "prompt")

\* A response starts, or succeeds at once, only for a remembered prompt.
Open(r) == reply[r] = "none" /\ Remembered(r) /\ Reply1(r, "open")
Succeed(r) == reply[r] \in {"none", "open"} /\ Remembered(r) /\ Reply1(r, "success")
Break(r) == reply[r] = "open" /\ Reply1(r, "broken")
Refuse(r) == reply[r] = "none" /\ Reply1(r, "refused")

\* The answer is stored after the response is over, as it ended.
StoreAnswer(r) ==
  /\ record[r] = "prompt"
  /\ \/ reply[r] = "success" /\ Record1(r, "complete")
     \/ reply[r] = "broken" /\ Record1(r, "partial")

\* A chat is deleted with all it remembers, for all its requests at once.
Erase ==
  /\ UNCHANGED reply
  /\ record' \in [Requests -> Record]
  /\ \A r \in Requests : record'[r] \in {record[r], "gone"}

Next ==
  \/ \E r \in Requests :
       StorePrompt(r) \/ Open(r) \/ Succeed(r) \/ Break(r) \/ Refuse(r) \/ StoreAnswer(r)
  \/ Erase

Spec == Init /\ [][Next]_vars

-----------------------------------------------------------------------------
\* A stored answer tells how its response ended, and a response that claims
\* success is for a prompt the chat has had.
RecordMatchesReply ==
  \A r \in Requests :
    /\ record[r] = "complete" => reply[r] = "success"
    /\ record[r] = "partial" => reply[r] = "broken"
    /\ reply[r] \in {"open", "success", "broken"} => record[r] # "none"

=============================================================================
