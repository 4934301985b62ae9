----------------------------- MODULE ChatHistory -----------------------------
(***************************************************************************)
(* GET /api/chats/:chatId/history page by page.  ChatService.getHistory    *)
(* looks the chat up, HistoryStrategyFactory picks a strategy, and         *)
(* MessageRepository.list reads either the last messages or a page in the  *)
(* order of createdAt.  Meanwhile completions store messages, an           *)
(* administrator changes the flags, and the seed script deletes the chat.  *)
(***************************************************************************)
EXTENDS Naturals, FiniteSets, SequencesExt

CONSTANTS
  Messages,         \* ids of messages of one chat
  HISTORY_PAGE_SIZE,
  LimitedCounts,    \* values CHAT_HISTORY_LIMITED_COUNT takes
  MaxTime,          \* bound: the clock
  MaxShown,         \* bound: messages shown before the last page is asked for
  Lag               \* bound: the time an insert takes

ASSUME SizeAssumption == LimitedCounts \cup {HISTORY_PAGE_SIZE} \subseteq Nat \ {0}
ASSUME BoundAssumption == {MaxTime, MaxShown, Lag} \subseteq Nat

VARIABLES
  now,        \* the clock
  createdAt,  \* table Message: a function on the ids that have a row
  chat,       \* whether the chat is there for this caller
  enabled,    \* CHAT_HISTORY_ENABLED
  count,      \* CHAT_HISTORY_LIMITED_COUNT
  phase,      \* of the scan: "idle", "paging", "done", "notFound"
  query,      \* the query that a request for a page awaits, or none
  cursor,     \* meta.nextCursor: one message, or none
  transcript, \* the messages of all pages, one page after the other
  strategies, \* history: the strategies the pages were read with
  behind      \* history: rows that committed at or before the cursor's time

table == <<now, createdAt, chat>>
flags == <<enabled, count>>
history == <<strategies, behind>>
scan == <<phase, query, cursor, transcript>>
vars == <<table, flags, scan, history>>

Rows == DOMAIN createdAt
Ended == phase \in {"done", "notFound"}
Shown == Range(transcript)

\* "limited" with its number of messages, or "full"
Limited(n) == [name |-> "limited", take |-> n]
Full == [name |-> "full", take |-> HISTORY_PAGE_SIZE]

-----------------------------------------------------------------------------
(* list() *)

\* The orders that orderBy: { createdAt: 'asc' } allows: rows of one instant
\* come in any order, and in another one in the next query.
Ascending ==
  {s \in SetToSeqs(Rows) : \A i, j \in DOMAIN s : i < j => createdAt[s[i]] <= createdAt[s[j]]}

FirstOf(s, n) == SubSeq(s, 1, IF n < Len(s) THEN n ELSE Len(s))

\* Slip: the oldest messages instead of the latest.
LastNOldest(asc, n) == FirstOf(asc, n)

\* orderBy: { createdAt: 'desc' }, take; rows.reverse()
LastN(asc, n) == Reverse(FirstOf(Reverse(asc), n))

\* How many rows of an order a cursor has behind it: none without one, and all
\* when its row is gone.
Position(asc, cur) ==
  IF cur = {} THEN 0
  ELSE IF cur \subseteq Rows THEN CHOOSE i \in DOMAIN asc : asc[i] \in cur ELSE Len(asc)

From(asc, n) == SubSeq(asc, n, Len(asc))

\* Slip: no skip: 1, the row of the cursor comes again.
FromCursor(asc, cur) ==
  From(asc, Position(asc, cur) + IF cur \cap Rows = {} THEN 1 ELSE 0)

\* cursor and skip: 1.
AfterCursor(asc, cur) == From(asc, Position(asc, cur) + 1)

\* Slip: a full page ends the scan.
NextCursorNever(page) == {}

\* A page that is not full is the last.
NextCursor(page) ==
  IF Len(page) = HISTORY_PAGE_SIZE THEN {page[Len(page)]} ELSE {}

\* HistoryStrategyFactory.resolve
Resolve(mobile) == IF mobile \/ ~enabled THEN Limited(count) ELSE Full

-----------------------------------------------------------------------------
Init ==
  /\ now = 0 /\ createdAt = [m \in {} |-> 0] /\ chat = TRUE
  /\ enabled \in BOOLEAN /\ count \in LimitedCounts
  /\ phase = "idle" /\ query = {} /\ cursor = {} /\ transcript = <<>>
  /\ strategies = {} /\ behind = {}

\* findById, then resolve: the strategy is fixed before the messages are read.
FindChat(mobile) ==
  /\ ~Ended /\ query = {} /\ Len(transcript) <= MaxShown
  /\ IF chat THEN query' = {Resolve(mobile)} /\ UNCHANGED phase
             ELSE phase' = "notFound" /\ UNCHANGED query
  /\ UNCHANGED <<table, flags, cursor, transcript, history>>

\* messages.list.  A limited page ignores the cursor and has no next one.
List(q) ==
  /\ q \in query
  /\ \E asc \in Ascending :
       LET page == IF q.name = "limited" THEN LastN(asc, q.take)
                                         ELSE FirstOf(AfterCursor(asc, cursor), q.take)
       IN  /\ transcript' = transcript \o page
           /\ cursor' = IF q.name = "limited" THEN {} ELSE NextCursor(page)
  /\ phase' = IF cursor' = {} THEN "done" ELSE "paging"
  /\ query' = {}
  /\ strategies' = strategies \cup {q.name}
  /\ UNCHANGED <<table, flags, behind>>

\* The caller is satisfied and opens the chat again.
Reopen ==
  /\ Ended
  /\ phase' = "idle" /\ cursor' = {} /\ transcript' = <<>>
  /\ strategies' = {} /\ behind' = {}
  /\ UNCHANGED <<table, flags, query>>

\* The database fails; the caller may ask for the same page again.
ListFails ==
  /\ query # {}
  /\ query' = {}
  /\ UNCHANGED <<table, flags, phase, cursor, transcript, history>>

\* A message gets the time at which its insert began.
Create(m, t) ==
  /\ chat /\ m \notin Rows
  /\ t <= now /\ now <= t + Lag
  /\ createdAt' = [o \in Rows \cup {m} |-> IF o = m THEN t ELSE createdAt[o]]
  /\ behind' = IF \E c \in cursor : t <= createdAt[c] THEN behind \cup {m} ELSE behind
  /\ UNCHANGED <<now, chat, flags, scan, strategies>>

\* Deletion cascades to the messages.
DeleteChat ==
  /\ chat
  /\ chat' = FALSE
  /\ createdAt' = [m \in {} |-> 0]
  /\ UNCHANGED <<now, flags, scan, history>>

SetFlags(e, n) ==
  /\ <<e, n>> # flags
  /\ enabled' = e /\ count' = n
  /\ UNCHANGED <<table, scan, history>>

Tick ==
  /\ now < MaxTime
  /\ now' = now + 1
  /\ UNCHANGED <<createdAt, chat, flags, scan, history>>

Scan ==
  \/ \E mobile \in BOOLEAN : FindChat(mobile)
  \/ \E q \in query : List(q)
  \/ ListFails
  \/ Reopen

\* Bound: nothing happens between two scans.
Environment ==
  /\ ~Ended
  /\ \/ \E m \in Messages, t \in 0..now : Create(m, t)
     \/ DeleteChat
     \/ \E e \in BOOLEAN, n \in LimitedCounts : SetFlags(e, n)
     \/ Tick

Next == Scan \/ Environment

Spec == Init /\ [][Next]_vars

-----------------------------------------------------------------------------
\* An id has no order.
Ids == Permutations(Messages)

(* Properties *)

\* Rows that share their instant with another one.
Tied == {m \in Rows : \E o \in Rows \ {m} : createdAt[o] = createdAt[m]}

\* The scan used one strategy throughout.
Steady == Cardinality(strategies) <= 1

\* A scan of full pages that ended has shown every message there is, however
\* many arrived meanwhile, except those that committed behind the cursor and
\* those without an order of their own.
MissedOnlyBehind ==
  phase = "done" /\ chat /\ strategies = {"full"} => Rows \ Shown \subseteq behind \cup Tied

\* As long as the strategy stays, the transcript is in the order of time, and
\* only messages of one instant can come twice.
Chronological ==
  Steady /\ chat =>
    \A i, j \in DOMAIN transcript : i < j =>
      /\ createdAt[transcript[i]] <= createdAt[transcript[j]]
      /\ transcript[i] = transcript[j] => transcript[i] \in Tied

\* However the flags changed during the scan, it ends with the latest message:
\* nothing that was there is newer than the last one shown.
EndsWithTheLatest ==
  phase = "done" /\ chat =>
    \A m \in Rows :
      transcript # <<>> /\ createdAt[m] <= createdAt[transcript[Len(transcript)]]

=============================================================================
