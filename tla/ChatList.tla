------------------------------ MODULE ChatList -------------------------------
(***************************************************************************)
(* GET /api/chats page by page: ChatRepository.list orders the chats of a  *)
(* user by updatedAt and id, newest first, and continues after a chat.     *)
(* Between two pages chats are created, completions move theirs to the     *)
(* top, the seed script deletes them and an administrator changes the      *)
(* size of a page.                                                         *)
(***************************************************************************)
EXTENDS Naturals, FiniteSets

CONSTANTS
  Chats,        \* ids of one user's chats, in the order of the database
  PageSizes,    \* values PAGINATION_LIMIT takes
  Asked,        \* values of ?limit=; none at all asks for as many as allowed
  MobileCap,    \* MOBILE_PAGE_SIZE_CAP
  MaxTime,      \* bound: the clock
  MaxInFlight,  \* bound: touches under way at once
  Lag           \* bound: the time an insert takes

ASSUME ChatAssumption == Chats \subseteq Nat
ASSUME SizeAssumption == PageSizes \cup Asked \cup {MobileCap} \subseteq Nat \ {0}
ASSUME BoundAssumption == {MaxTime, MaxInFlight, Lag} \subseteq Nat

VARIABLES
  now,        \* the clock
  updatedAt,  \* table Chat: a function on the ids that have a row
  born,       \* ids ever given: none is given twice
  inFlight,   \* touches that took their time and have not landed
  limit,      \* PAGINATION_LIMIT
  phase,      \* of the scan: "idle", "paging", "done"
  cursor,     \* meta.nextCursor: one chat, or none
  shown,      \* chats the scan has shown
  repeated,   \* those it has shown twice
  first,      \* history: the chats there were at the first page
  moved,      \* history: rows changed or deleted since then, until the last page
  back        \* history: one of them to an earlier time

table == <<now, updatedAt, born, inFlight, limit>>
scan == <<phase, cursor, shown, repeated, first>>
history == <<moved, back>>
vars == <<table, scan, history>>

Rows == DOMAIN updatedAt

-----------------------------------------------------------------------------
(* list() *)

\* Slip: orderBy has no second key.
NewerWithoutId(c, d) == updatedAt[c] > updatedAt[d]

\* orderBy: [{ updatedAt: 'desc' }, { id: 'desc' }]
Newer(c, d) == updatedAt[c] > updatedAt[d] \/ (updatedAt[c] = updatedAt[d] /\ c > d)

\* cursor and skip: 1, by what the row of the cursor holds at this moment; a
\* cursor without a row has nothing after it.
After(cur) == {c \in Rows : \A d \in cur : d \in Rows /\ Newer(d, c)}

Page(rows, take) == {c \in rows : Cardinality({d \in rows : Newer(d, c)}) < take}

Oldest(rows) == {c \in rows : \A d \in rows \ {c} : Newer(d, c)}

\* Slip: one row too many is looked for.
NextCursorShort(rows, take) ==
  IF Cardinality(rows) > take + 1 THEN Oldest(Page(rows, take)) ELSE {}

\* One row more than a page is fetched to know whether another page follows.
NextCursor(rows, take) ==
  IF Cardinality(rows) > take THEN Oldest(Page(rows, take)) ELSE {}

Smaller(m, n) == IF m < n THEN m ELSE n

EffectiveCap(mobile) == IF mobile THEN Smaller(limit, MobileCap) ELSE limit

-----------------------------------------------------------------------------
Init ==
  /\ now = 0
  /\ updatedAt = [c \in {} |-> 0]
  /\ born = {} /\ inFlight = {}
  /\ limit \in PageSizes
  /\ phase = "idle" /\ cursor = {}
  /\ shown = {} /\ repeated = {} /\ first = {}
  /\ moved = {} /\ back = FALSE

\* One page.  The first starts the scan, the one without nextCursor ends it.
Read(mobile, asked) ==
  /\ phase # "done"
  /\ LET take == Smaller(asked, EffectiveCap(mobile))
         rows == After(cursor)
         page == Page(rows, take)
     IN  /\ shown' = shown \cup page
         /\ repeated' = repeated \cup (shown \cap page)
         /\ cursor' = NextCursor(rows, take)
         /\ phase' = IF cursor' = {} THEN "done" ELSE "paging"
  /\ first' = IF phase = "idle" THEN Rows ELSE first
  /\ UNCHANGED <<table, history>>

\* The row gets the time at which its insert began.
Create(c, t) ==
  /\ c \notin born
  /\ t <= now /\ now <= t + Lag
  /\ born' = born \cup {c}
  /\ updatedAt' = [d \in Rows \cup {c} |-> IF d = c THEN t ELSE updatedAt[d]]
  /\ UNCHANGED <<now, inFlight, limit, scan, history>>

\* What happens to rows matters between the first page and the last.
Note(rows, backwards) ==
  IF phase = "paging"
    THEN moved' = moved \cup rows /\ back' = (back \/ backwards)
    ELSE UNCHANGED history

\* touch() takes the time before its update is sent.
Touch(c) ==
  /\ c \in Rows
  /\ Cardinality(inFlight) < MaxInFlight
  /\ inFlight' = inFlight \cup {[chat |-> c, time |-> now]}
  /\ UNCHANGED <<now, updatedAt, born, limit, scan, history>>

\* Updates land in any order.  The update of a chat without a row fails, and
\* any other may.
Land(t) ==
  /\ t \in inFlight
  /\ inFlight' = inFlight \ {t}
  /\ \/ /\ t.chat \in Rows
        /\ updatedAt' = [updatedAt EXCEPT ![t.chat] = t.time]
        /\ Note({t.chat}, t.time < updatedAt[t.chat])
     \/ UNCHANGED <<updatedAt, history>>
  /\ UNCHANGED <<now, born, limit, scan>>

\* The seed script deletes every chat of its user.
DeleteMany ==
  /\ updatedAt' = [c \in {} |-> 0]
  /\ Note(Rows, FALSE)
  /\ UNCHANGED <<now, born, inFlight, limit, scan>>

SetLimit(n) ==
  /\ limit' = n
  /\ UNCHANGED <<now, updatedAt, born, inFlight, scan, history>>

Tick ==
  /\ now < MaxTime
  /\ now' = now + 1
  /\ UNCHANGED <<updatedAt, born, inFlight, limit, scan, history>>

Next ==
  \/ \E mobile \in BOOLEAN, asked \in Asked : Read(mobile, asked)
  \/ \E c \in Chats : Touch(c) \/ \E t \in 0..now : Create(c, t)
  \/ \E t \in inFlight : Land(t)
  \/ \E n \in PageSizes : SetLimit(n)
  \/ DeleteMany
  \/ Tick

Spec == Init /\ [][Next]_vars

-----------------------------------------------------------------------------
(* Properties *)

\* "Cursor-based pagination - stable under inserts": as long as only inserts
\* interfere, no chat is shown twice, and a scan that ended has shown every chat
\* there was when it began, whatever sizes its pages had.
StableUnderInserts ==
  moved = {} =>
    /\ repeated = {}
    /\ phase = "done" => first \subseteq shown

\* A completion that moves a chat to the top, even the one the cursor names,
\* may cause repetitions but hides no chat that stayed where it was; only a
\* touch that lands after a later one can.
QuietAreShown ==
  phase = "done" /\ ~back => first \ moved \subseteq shown

=============================================================================
