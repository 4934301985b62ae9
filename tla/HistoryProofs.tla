---------------------------- MODULE HistoryProofs -----------------------------
(***************************************************************************)
(* The chat history page by page, for any number of messages, any sizes of *)
(* a page and any changes between two pages.  A page is a slice of one     *)
(* order of the rows: what comes next after the cursor, or the end.        *)
(***************************************************************************)
EXTENDS ChatHistory, FiniteSetTheorems, TLAPS

\* page is what asc holds after its first p elements.
Slice(page, asc, p) ==
  /\ page \in Seq(Messages) /\ p \in Nat /\ p + Len(page) <= Len(asc)
  /\ \A i \in 1..Len(page) : page[i] = asc[p + i]

Query(q) ==
  \/ q.name = "full" /\ q.take = HISTORY_PAGE_SIZE
  \/ q.name = "limited" /\ q.take \in Nat \ {0}

TableOK ==
  /\ chat \in BOOLEAN /\ now \in Nat /\ count \in Nat \ {0}
  /\ Rows \subseteq Messages /\ IsFiniteSet(Rows)
  /\ \A m \in Rows : createdAt[m] \in Nat

ScanOK ==
  /\ phase \in {"idle", "paging", "done", "notFound"}
  /\ \A q \in query : Query(q)
  /\ Ended => query = {}
  /\ transcript \in Seq(Messages)
  /\ strategies \subseteq {"full", "limited"}
  /\ phase = "idle" => transcript = <<>> /\ strategies = {} /\ cursor = {}
  /\ phase = "paging" => /\ strategies = {"full"} /\ transcript # <<>>
                         /\ cursor = {transcript[Len(transcript)]}

\* Between two pages, what was not shown comes later than the cursor.
RestIsLater ==
  phase = "paging" =>
    \A m \in Rows \ (Shown \cup behind \cup Tied), c \in cursor : createdAt[m] > createdAt[c]

HInv ==
  /\ TableOK /\ ScanOK
  /\ chat => Shown \subseteq Rows /\ RestIsLater
  /\ MissedOnlyBehind /\ Chronological /\ EndsWithTheLatest

-----------------------------------------------------------------------------
(* The orders of the rows *)

LEMMA AscendingFacts ==
  ASSUME TableOK, NEW asc \in Ascending
  PROVE  /\ asc \in Seq(Rows) /\ asc \in Seq(Messages)
         /\ \A i, j \in 1..Len(asc) : i # j => asc[i] # asc[j]
         /\ \A i, j \in 1..Len(asc) : i <= j => createdAt[asc[i]] <= createdAt[asc[j]]
         /\ \A m \in Rows : \E i \in 1..Len(asc) : asc[i] = m
<1> DEFINE n == Cardinality(Rows)
<1>1. n \in Nat
  BY FS_CardinalityType DEF TableOK
<1>2. /\ asc \in [1..n -> Rows]
      /\ \A i, j \in 1..n : i # j => asc[i] # asc[j]
      /\ \A i, j \in DOMAIN asc : i < j => createdAt[asc[i]] <= createdAt[asc[j]]
  BY DEF Ascending, SetToSeqs
<1> HIDE DEF n
<1>3. asc \in Seq(Rows) /\ Len(asc) = n
  BY <1>1, <1>2
<1>4. asc \in Seq(Messages)
  BY <1>3 DEF TableOK
<1>5. \A i, j \in 1..n : i <= j => createdAt[asc[i]] <= createdAt[asc[j]]
  BY <1>1, <1>2 DEF TableOK
<1>6. asc \in Surjection(1..n, Rows)
  <2>1. asc \in Injection(1..n, Rows)
    BY <1>2 DEF Injection, IsInjective
  <2>2. IsFiniteSet(1..n) /\ Cardinality(1..n) = n
    BY <1>1, FS_Interval
  <2> QED BY <2>1, <2>2, FS_Injection DEF TableOK, n
<1>7. \A m \in Rows : \E i \in 1..n : asc[i] = m
  BY <1>6 DEF Surjection
<1> QED BY <1>2, <1>3, <1>4, <1>5, <1>7

LEMMA FirstOfFacts ==
  ASSUME NEW S, NEW s \in Seq(S), NEW n \in Nat
  PROVE  /\ FirstOf(s, n) \in Seq(S)
         /\ Len(FirstOf(s, n)) = IF n < Len(s) THEN n ELSE Len(s)
         /\ \A i \in 1..Len(FirstOf(s, n)) : FirstOf(s, n)[i] = s[i]
BY DEF FirstOf

LEMMA FromFacts ==
  ASSUME NEW S, NEW s \in Seq(S), NEW p \in 0..Len(s)
  PROVE  /\ From(s, p + 1) \in Seq(S)
         /\ Len(From(s, p + 1)) = Len(s) - p
         /\ \A i \in 1..(Len(s) - p) : From(s, p + 1)[i] = s[p + i]
BY DEF From

LEMMA ReverseFacts ==
  ASSUME NEW S, NEW s \in Seq(S)
  PROVE  /\ Reverse(s) \in Seq(S) /\ Len(Reverse(s)) = Len(s)
         /\ \A i \in 1..Len(s) : Reverse(s)[i] = s[Len(s) - i + 1]
BY DEF Reverse

\* The last messages are the end of the order.
LEMMA LastNFacts ==
  ASSUME NEW asc \in Seq(Messages), NEW n \in Nat \ {0}
  PROVE  /\ Slice(LastN(asc, n), asc, Len(asc) - Len(LastN(asc, n)))
         /\ asc # <<>> => LastN(asc, n) # <<>>
<1> DEFINE r == Reverse(asc)
           f == FirstOf(r, n)
           k == Len(f)
<1>1. r \in Seq(Messages) /\ Len(r) = Len(asc) /\ \A i \in 1..Len(asc) : r[i] = asc[Len(asc) - i + 1]
  BY ReverseFacts
<1>2. /\ f \in Seq(Messages) /\ k = IF n < Len(r) THEN n ELSE Len(r)
      /\ \A i \in 1..k : f[i] = r[i]
  BY <1>1, FirstOfFacts
<1>3. /\ Reverse(f) \in Seq(Messages) /\ Len(Reverse(f)) = k
      /\ \A i \in 1..k : Reverse(f)[i] = f[k - i + 1]
  BY <1>2, ReverseFacts
<1>4. LastN(asc, n) = Reverse(f)
  BY DEF LastN
<1> HIDE DEF r, f, k
<1>5. k \in 0..Len(asc) /\ (Len(asc) > 0 => k > 0)
  BY <1>1, <1>2
<1>6. ASSUME NEW i \in 1..k
      PROVE  Reverse(f)[i] = asc[(Len(asc) - k) + i]
  <2>1. k - i + 1 \in 1..k /\ k - i + 1 \in 1..Len(asc)
    BY <1>5
  <2>2. Reverse(f)[i] = asc[Len(asc) - (k - i + 1) + 1]
    BY <1>1, <1>2, <1>3, <2>1
  <2>3. Len(asc) - (k - i + 1) + 1 = (Len(asc) - k) + i
    BY <1>5
  <2> QED BY <2>2, <2>3
<1> QED BY <1>3, <1>4, <1>5, <1>6 DEF Slice

\* Where a scan continues.
LEMMA PositionFacts ==
  ASSUME TableOK, NEW asc \in Ascending
  PROVE  /\ Position(asc, {}) = 0
         /\ \A c : Position(asc, {c}) \in 0..Len(asc)
         /\ \A c \in Rows : Position(asc, {c}) \in 1..Len(asc) /\ asc[Position(asc, {c})] = c
<1>1. asc \in Seq(Rows) /\ \A m \in Rows : \E i \in 1..Len(asc) : asc[i] = m
  BY AscendingFacts
<1>2. Position(asc, {}) = 0
  BY DEF Position
<1>3. ASSUME NEW c \in Rows
      PROVE  Position(asc, {c}) \in 1..Len(asc) /\ asc[Position(asc, {c})] = c
  <2>1. \E i \in DOMAIN asc : asc[i] \in {c}
    BY <1>1
  <2>2. Position(asc, {c}) = CHOOSE i \in DOMAIN asc : asc[i] \in {c}
    BY DEF Position
  <2> QED BY <1>1, <2>1, <2>2
<1>4. ASSUME NEW c, c \notin Rows
      PROVE  Position(asc, {c}) = Len(asc)
  BY <1>4 DEF Position
<1>5. Len(asc) \in Nat
  BY <1>1
<1>6. ASSUME NEW c
      PROVE  Position(asc, {c}) \in 0..Len(asc)
  <2>1. CASE c \in Rows
    <3>1. Position(asc, {c}) \in 1..Len(asc)
      BY <1>3, <2>1
    <3> QED BY <1>5, <3>1
  <2>2. CASE c \notin Rows
    BY <1>4, <1>5, <2>2
  <2> QED BY <2>1, <2>2
<1> QED BY <1>2, <1>3, <1>6

\* The page after a cursor is what follows, up to its size.
LEMMA AfterCursorFacts ==
  ASSUME NEW asc \in Seq(Messages), NEW cur, Position(asc, cur) \in 0..Len(asc),
         NEW page, page = FirstOf(AfterCursor(asc, cur), HISTORY_PAGE_SIZE)
  PROVE  /\ Slice(page, asc, Position(asc, cur))
         /\ Len(page) = HISTORY_PAGE_SIZE \/ Position(asc, cur) + Len(page) = Len(asc)
<1> DEFINE p == Position(asc, cur)
           rest == From(asc, p + 1)
<1>1. p \in 0..Len(asc) /\ HISTORY_PAGE_SIZE \in Nat
  BY SizeAssumption
<1>2. page = FirstOf(rest, HISTORY_PAGE_SIZE)
  BY DEF AfterCursor
<1>3. /\ rest \in Seq(Messages) /\ Len(rest) = Len(asc) - p
      /\ \A i \in 1..(Len(asc) - p) : rest[i] = asc[p + i]
  BY <1>1, FromFacts
<1> HIDE DEF p, rest
<1>4. /\ page \in Seq(Messages)
      /\ Len(page) = IF HISTORY_PAGE_SIZE < Len(rest) THEN HISTORY_PAGE_SIZE ELSE Len(rest)
      /\ \A i \in 1..Len(page) : page[i] = rest[i]
  <2>1. PICK f : f = FirstOf(rest, HISTORY_PAGE_SIZE)
    OBVIOUS
  <2>2. /\ f \in Seq(Messages)
        /\ Len(f) = IF HISTORY_PAGE_SIZE < Len(rest) THEN HISTORY_PAGE_SIZE ELSE Len(rest)
        /\ \A i \in 1..Len(f) : f[i] = rest[i]
    BY <1>1, <1>3, <2>1, FirstOfFacts
  <2> QED BY <1>2, <2>1, <2>2
<1>5. Slice(page, asc, p)
  BY <1>1, <1>3, <1>4 DEF Slice
<1> QED BY <1>1, <1>3, <1>4, <1>5 DEF p

-----------------------------------------------------------------------------
(* A page is read *)

LEMMA SteadyFacts ==
  ASSUME strategies \subseteq {"full", "limited"}
  PROVE  Steady <=> strategies # {"full", "limited"}
<1>1. strategies \in {{}, {"full"}, {"limited"}, {"full", "limited"}}
  OBVIOUS
<1>2. /\ Cardinality({}) = 0 /\ Cardinality({"full"}) = 1 /\ Cardinality({"limited"}) = 1
      /\ Cardinality({"full", "limited"}) = 2
  <2>1. Cardinality({"full"} \cup {"limited"}) = 2
    <3>1. IsFiniteSet({"full"}) /\ Cardinality({"full"}) = 1 /\ "limited" \notin {"full"}
      BY FS_Singleton
    <3> QED BY <3>1, FS_AddElement
  <2>2. {"full", "limited"} = {"full"} \cup {"limited"}
    OBVIOUS
  <2> QED BY <2>1, <2>2, FS_EmptySet, FS_Singleton
<1>3. CASE strategies \in {{}, {"full"}, {"limited"}}
  <2>1. Cardinality(strategies) \in {0, 1}
    BY <1>2, <1>3
  <2>2. strategies # {"full", "limited"}
    BY <1>3
  <2>3. Cardinality(strategies) <= 1
    BY <2>1
  <2> QED BY <2>2, <2>3 DEF Steady
<1>4. CASE strategies = {"full", "limited"}
  BY <1>2, <1>4 DEF Steady
<1> QED BY <1>1, <1>3, <1>4

LEMMA SteadyPrimed ==
  ASSUME Steady', strategies' \subseteq {"full", "limited"}
  PROVE  strategies' # {"full", "limited"}
<1>1. Cardinality({"full"} \cup {"limited"}) = 2
  <2>1. IsFiniteSet({"full"}) /\ Cardinality({"full"}) = 1 /\ "limited" \notin {"full"}
    BY FS_Singleton
  <2> QED BY <2>1, FS_AddElement
<1>2. {"full"} \cup {"limited"} = {"full", "limited"}
  OBVIOUS
<1> QED BY <1>1, <1>2 DEF Steady

\* What List appends and where it leaves the cursor.
LEMMA ListPage ==
  ASSUME HInv, NEW q \in query, List(q)
  PROVE  \E asc \in Ascending, p \in Nat, page \in Seq(Messages) :
           /\ Slice(page, asc, p)
           /\ transcript' = transcript \o page
           /\ phase' = "done" => cursor' = {} /\ p + Len(page) = Len(asc)
           /\ phase' = "paging" => q.name = "full" /\ page # <<>> /\ cursor' = {page[Len(page)]}
           /\ phase' \in {"paging", "done"}
           /\ q.name = "full" => p = Position(asc, cursor)
           /\ q.name = "limited" /\ Rows # {} => page # <<>>
<1>1. Query(q) /\ TableOK /\ ScanOK
  BY DEF HInv, ScanOK
<1>2. PICK asc \in Ascending :
        /\ transcript' = transcript \o
                           IF q.name = "limited" THEN LastN(asc, q.take)
                           ELSE FirstOf(AfterCursor(asc, cursor), q.take)
        /\ cursor' = IF q.name = "limited" THEN {}
                     ELSE NextCursor(FirstOf(AfterCursor(asc, cursor), q.take))
        /\ phase' = IF cursor' = {} THEN "done" ELSE "paging"
  BY DEF List
<1>3. /\ asc \in Seq(Messages) /\ Len(asc) \in Nat
      /\ Rows # {} => asc # <<>>
  BY <1>1, AscendingFacts
<1>4. CASE q.name = "limited"
  <2>1. PICK page : page = LastN(asc, q.take)
    OBVIOUS
  <2>2. /\ Slice(page, asc, Len(asc) - Len(page))
        /\ asc # <<>> => page # <<>>
    BY <1>1, <1>3, <1>4, <2>1, LastNFacts DEF Query
  <2>3. Len(asc) - Len(page) \in Nat /\ page \in Seq(Messages)
        /\ (Len(asc) - Len(page)) + Len(page) = Len(asc)
    BY <1>3, <2>2 DEF Slice
  <2> QED BY <1>2, <1>3, <1>4, <2>1, <2>2, <2>3
<1>5. CASE q.name = "full"
  <2>1. PICK page : page = FirstOf(AfterCursor(asc, cursor), HISTORY_PAGE_SIZE)
    OBVIOUS
  <2>2. PICK p : p = Position(asc, cursor)
    OBVIOUS
  <2>3. p \in 0..Len(asc)
    <3>1. phase \in {"idle", "paging"}
      BY <1>1 DEF ScanOK, Ended
    <3>2. cursor = {} \/ \E c : cursor = {c}
      BY <1>1, <3>1 DEF ScanOK
    <3>3. CASE cursor = {}
      BY <1>1, <1>3, <2>2, <3>3, PositionFacts
    <3>4. ASSUME NEW c, cursor = {c}
          PROVE  p \in 0..Len(asc)
      BY <1>1, <2>2, <3>4, PositionFacts
    <3> QED BY <3>2, <3>3, <3>4
  <2>4. Slice(page, asc, p) /\ (Len(page) = HISTORY_PAGE_SIZE \/ p + Len(page) = Len(asc))
    BY <1>3, <2>1, <2>2, <2>3, AfterCursorFacts
  <2>5. page \in Seq(Messages)
    BY <2>4 DEF Slice
  <2>6. q.take = HISTORY_PAGE_SIZE
    BY <1>1, <1>5 DEF Query
  <2>7. transcript' = transcript \o page /\ cursor' = NextCursor(page)
    BY <1>2, <1>5, <2>1, <2>6
  <2>8. CASE Len(page) = HISTORY_PAGE_SIZE
    <3>1. cursor' = {page[Len(page)]} /\ page # <<>>
      BY <2>5, <2>7, <2>8, SizeAssumption DEF NextCursor
    <3>2. phase' = "paging"
      BY <1>2, <3>1
    <3> QED BY <1>5, <2>2, <2>3, <2>4, <2>5, <2>7, <3>1, <3>2
  <2>9. CASE Len(page) # HISTORY_PAGE_SIZE
    <3>1. cursor' = {} /\ phase' = "done"
      BY <1>2, <2>7, <2>9 DEF NextCursor
    <3>2. p \in Nat /\ p + Len(page) = Len(asc)
      BY <2>3, <2>4, <2>9
    <3>3. /\ Slice(page, asc, p) /\ transcript' = transcript \o page
          /\ phase' = "done" /\ cursor' = {} /\ q.name = "full" /\ p = Position(asc, cursor)
      BY <1>5, <2>2, <2>4, <2>7, <3>1
    <3> QED BY <2>5, <3>2, <3>3
  <2> QED BY <2>8, <2>9
<1> QED BY <1>1, <1>4, <1>5 DEF Query

\* Where a page begins: nothing was shown yet, or the scan stands at p.
LEMMA WhereItStands ==
  ASSUME HInv, chat, NEW q \in query, q.name = "full", NEW asc \in Ascending
  PROVE  /\ strategies \subseteq {"full"} /\ Steady
         /\ \/ phase = "idle" /\ transcript = <<>> /\ Position(asc, cursor) = 0
            \/ /\ phase = "paging" /\ transcript # <<>>
               /\ Position(asc, cursor) \in 1..Len(asc)
               /\ transcript[Len(transcript)] = asc[Position(asc, cursor)]
               /\ cursor = {asc[Position(asc, cursor)]}
<1>1. TableOK /\ ScanOK /\ Shown \subseteq Rows
  BY DEF HInv
<1>2. phase \in {"idle", "paging"}
  BY <1>1 DEF ScanOK, Ended
<1>3. strategies \subseteq {"full"} /\ Steady
  <2>1. strategies \subseteq {"full"}
    BY <1>1, <1>2 DEF ScanOK
  <2>2. strategies \subseteq {"full", "limited"} /\ strategies # {"full", "limited"}
    BY <2>1
  <2> QED BY <2>1, <2>2, SteadyFacts
<1>4. CASE phase = "idle"
  BY <1>1, <1>3, <1>4, PositionFacts DEF ScanOK
<1>5. CASE phase = "paging"
  <2>1. PICK c : c = transcript[Len(transcript)]
    OBVIOUS
  <2>2. cursor = {c} /\ transcript # <<>> /\ transcript \in Seq(Messages)
    BY <1>1, <1>5, <2>1 DEF ScanOK
  <2>3. c \in Rows
    BY <1>1, <2>1, <2>2 DEF Shown, Range
  <2>4. Position(asc, {c}) \in 1..Len(asc) /\ asc[Position(asc, {c})] = c
    BY <1>1, <2>3, PositionFacts
  <2> QED BY <1>3, <1>5, <2>1, <2>2, <2>4
<1> QED BY <1>2, <1>4, <1>5

\* Everything shown is at or before the place where the scan stands.
LEMMA ShownIsBefore ==
  ASSUME HInv, chat, phase = "paging", NEW i \in DOMAIN transcript
  PROVE  /\ transcript[i] \in Rows /\ transcript[Len(transcript)] \in Rows
         /\ createdAt[transcript[i]] <= createdAt[transcript[Len(transcript)]]
<1>1. TableOK /\ ScanOK /\ Shown \subseteq Rows /\ Chronological
  BY DEF HInv
<1>2. transcript \in Seq(Messages) /\ transcript # <<>> /\ Steady
  BY <1>1, SteadyFacts DEF ScanOK
<1>3. Len(transcript) \in DOMAIN transcript /\ \A k \in DOMAIN transcript : transcript[k] \in Rows
  BY <1>1, <1>2 DEF Shown, Range
<1>4. CASE i = Len(transcript)
  BY <1>1, <1>3, <1>4 DEF TableOK
<1>5. CASE i < Len(transcript)
  BY <1>1, <1>2, <1>3, <1>5 DEF Chronological
<1> QED BY <1>2, <1>3, <1>4, <1>5

LEMMA AppendFacts ==
  ASSUME NEW s \in Seq(Messages), NEW t \in Seq(Messages)
  PROVE  /\ s \o t \in Seq(Messages) /\ Len(s \o t) = Len(s) + Len(t)
         /\ \A i \in 1..Len(s) : (s \o t)[i] = s[i]
         /\ \A i \in 1..Len(t) : (s \o t)[Len(s) + i] = t[i]
         /\ Range(s \o t) = Range(s) \cup Range(t)
<1>1. /\ s \o t \in Seq(Messages) /\ Len(s \o t) = Len(s) + Len(t)
      /\ \A i \in 1..Len(s) : (s \o t)[i] = s[i]
      /\ \A i \in 1..Len(t) : (s \o t)[Len(s) + i] = t[i]
  OBVIOUS
<1>2. ASSUME NEW x \in Range(s \o t)
      PROVE  x \in Range(s) \cup Range(t)
  <2>1. PICK i \in 1..(Len(s) + Len(t)) : x = (s \o t)[i]
    BY <1>1 DEF Range
  <2>2. CASE i \in 1..Len(s)
    BY <1>1, <2>1, <2>2 DEF Range
  <2>3. CASE i \notin 1..Len(s)
    <3>1. i - Len(s) \in 1..Len(t) /\ i = Len(s) + (i - Len(s))
      BY <2>3
    <3> QED BY <1>1, <2>1, <3>1 DEF Range
  <2> QED BY <2>2, <2>3
<1>3. ASSUME NEW x \in Range(s)
      PROVE  x \in Range(s \o t)
  BY <1>1 DEF Range
<1>4. ASSUME NEW x \in Range(t)
      PROVE  x \in Range(s \o t)
  <2>1. PICK i \in 1..Len(t) : x = t[i]
    BY DEF Range
  <2>2. Len(s) + i \in DOMAIN (s \o t)
    BY <1>1
  <2> QED BY <1>1, <2>1, <2>2 DEF Range
<1> QED BY <1>1, <1>2, <1>3, <1>4

\* What lies before that place was shown, or is excused.
LEMMA BeforeIsShown ==
  ASSUME HInv, chat, NEW q \in query, q.name = "full", NEW asc \in Ascending,
         NEW k \in 1..Position(asc, cursor)
  PROVE  asc[k] \in Shown \cup behind \cup Tied
<1> DEFINE p == Position(asc, cursor)
<1>1. TableOK /\ RestIsLater
  BY DEF HInv
<1>2. /\ phase = "paging" /\ p \in 1..Len(asc) /\ cursor = {asc[p]}
  BY WhereItStands
<1> HIDE DEF p
<1>3. k \in 1..p /\ k \in 1..Len(asc) /\ k <= p
  BY <1>2 DEF p
<1>4. createdAt[asc[k]] <= createdAt[asc[p]] /\ asc[k] \in Rows /\ asc[p] \in Rows
  BY <1>1, <1>2, <1>3, AscendingFacts
<1>5. ~(createdAt[asc[k]] > createdAt[asc[p]])
  BY <1>1, <1>4 DEF TableOK
<1> QED BY <1>1, <1>2, <1>4, <1>5 DEF RestIsLater

LEMMA ListScanOK ==
  ASSUME HInv, NEW q \in query, List(q)
  PROVE  TableOK' /\ ScanOK'
<1>1. TableOK /\ ScanOK /\ Query(q)
  BY DEF HInv, ScanOK
<1>2. TableOK'
  BY <1>1 DEF List, table, flags, TableOK, Rows
<1>3. phase \in {"idle", "paging"}
  BY <1>1 DEF ScanOK, Ended
<1>4. PICK asc \in Ascending, p \in Nat, page \in Seq(Messages) :
        /\ transcript' = transcript \o page
        /\ phase' = "paging" => q.name = "full" /\ page # <<>> /\ cursor' = {page[Len(page)]}
        /\ phase' \in {"paging", "done"}
  BY ListPage
<1>5. query' = {} /\ strategies' = strategies \cup {q.name}
  BY DEF List
<1>6. transcript \in Seq(Messages) /\ transcript' \in Seq(Messages)
  BY <1>1, <1>4, AppendFacts DEF ScanOK
<1>7. strategies' \subseteq {"full", "limited"} /\ (q.name = "full" => strategies' = {"full"})
  BY <1>1, <1>3, <1>5 DEF ScanOK, Query
<1>8. ASSUME phase' = "paging"
      PROVE  /\ strategies' = {"full"} /\ transcript' # <<>>
             /\ cursor' = {transcript'[Len(transcript')]}
  <2>1. q.name = "full" /\ page # <<>> /\ cursor' = {page[Len(page)]}
    BY <1>4, <1>8
  <2>2. Len(page) \in 1..Len(page)
    BY <2>1
  <2>3. /\ Len(transcript') = Len(transcript) + Len(page)
        /\ transcript'[Len(transcript) + Len(page)] = page[Len(page)]
    BY <1>4, <1>6, <2>2, AppendFacts
  <2>4. transcript' # <<>>
    BY <1>6, <2>2, <2>3
  <2> QED BY <1>7, <2>1, <2>3, <2>4
<1> QED BY <1>2, <1>4, <1>5, <1>6, <1>7, <1>8 DEF ScanOK, Ended

LEMMA ListShows ==
  ASSUME HInv, NEW q \in query, List(q), chat'
  PROVE  Shown' \subseteq Rows' /\ RestIsLater' /\ MissedOnlyBehind'
<1>1. TableOK /\ ScanOK /\ Query(q)
  BY DEF HInv, ScanOK
<1>2. /\ createdAt' = createdAt /\ chat /\ behind' = behind /\ Rows' = Rows /\ Tied' = Tied
      /\ strategies' = strategies \cup {q.name}
  BY DEF List, table, Rows, Tied
<1>3. PICK asc \in Ascending, p \in Nat, page \in Seq(Messages) :
        /\ Slice(page, asc, p)
        /\ transcript' = transcript \o page
        /\ phase' = "done" => cursor' = {} /\ p + Len(page) = Len(asc)
        /\ phase' = "paging" => q.name = "full" /\ page # <<>> /\ cursor' = {page[Len(page)]}
        /\ phase' \in {"paging", "done"}
        /\ q.name = "full" => p = Position(asc, cursor)
  BY ListPage
<1>4. Shown' = Shown \cup Range(page)
  BY <1>1, <1>3, AppendFacts DEF ScanOK, Shown
<1>5. /\ Len(page) \in Nat /\ p + Len(page) <= Len(asc) /\ Len(asc) \in Nat
      /\ \A i \in 1..Len(page) : page[i] = asc[p + i] /\ p + i \in 1..Len(asc)
  BY <1>1, <1>3, AscendingFacts DEF Slice
<1>6. /\ asc \in Seq(Rows)
      /\ \A i, j \in 1..Len(asc) : i # j => asc[i] # asc[j]
      /\ \A i, j \in 1..Len(asc) : i <= j => createdAt[asc[i]] <= createdAt[asc[j]]
      /\ \A m \in Rows : \E i \in 1..Len(asc) : asc[i] = m
  BY <1>1, AscendingFacts
<1>7. Shown' \subseteq Rows'
  <2>1. ASSUME NEW i \in 1..Len(page)
        PROVE  page[i] \in Rows
    <3>1. PICK k : k = p + i
      OBVIOUS
    <3>2. k \in 1..Len(asc) /\ page[i] = asc[k]
      BY <1>5, <3>1
    <3> QED BY <1>6, <3>2
  <2>2. Range(page) \subseteq Rows
    BY <2>1 DEF Range
  <2> QED BY <1>2, <1>4, <2>2 DEF HInv
<1>8. ASSUME q.name = "full", NEW k \in 1..(p + Len(page))
      PROVE  asc[k] \in Shown' \cup behind' \cup Tied'
  <2>1. CASE k \in 1..p
    BY <1>2, <1>3, <1>4, <1>8, <2>1, BeforeIsShown
  <2>2. CASE k \notin 1..p
    <3>1. k - p \in 1..Len(page) /\ p + (k - p) = k
      BY <1>5, <2>2
    <3>2. asc[k] = page[k - p]
      BY <1>5, <3>1
    <3> QED BY <1>4, <3>1, <3>2 DEF Range
  <2> QED BY <2>1, <2>2
<1>9. RestIsLater'
  <2> SUFFICES ASSUME phase' = "paging",
                      NEW m \in Rows, m \notin Shown' \cup behind' \cup Tied',
                      NEW e, e \in cursor'
               PROVE  createdAt[m] > createdAt[e]
    BY <1>2 DEF RestIsLater
  <2>1. q.name = "full" /\ page # <<>> /\ e = page[Len(page)]
    BY <1>3
  <2>2. Len(page) \in 1..Len(page) /\ p + Len(page) \in 1..Len(asc) /\ e = asc[p + Len(page)]
    BY <1>3, <1>5, <2>1
  <2>3. PICK k \in 1..Len(asc) : asc[k] = m
    BY <1>6
  <2>4. k \notin 1..(p + Len(page))
    BY <1>8, <2>1, <2>3
  <2>5. k > p + Len(page)
    BY <1>5, <2>4
  <2>6. createdAt[e] <= createdAt[m] /\ e # m /\ e \in Rows
    <3>1. PICK l : l = p + Len(page)
      OBVIOUS
    <3>2. l \in 1..Len(asc) /\ e = asc[l] /\ l <= k /\ l # k
      BY <1>5, <2>2, <2>5, <3>1
    <3>3. createdAt[asc[l]] <= createdAt[asc[k]] /\ asc[l] # asc[k]
      BY <1>6, <3>2
    <3>4. asc[l] \in Rows
      BY <1>6, <3>2
    <3> QED BY <2>3, <3>2, <3>3, <3>4
  <2>7. createdAt[e] # createdAt[m]
    BY <1>2, <2>6 DEF Tied
  <2>8. createdAt[e] \in Nat /\ createdAt[m] \in Nat
    BY <1>1, <2>6 DEF TableOK
  <2> QED BY <2>6, <2>7, <2>8
<1>10. MissedOnlyBehind'
  <2> SUFFICES ASSUME phase' = "done", strategies' = {"full"}, NEW m \in Rows
               PROVE  m \in Shown' \cup behind' \cup Tied'
    BY <1>2 DEF MissedOnlyBehind
  <2>1. q.name = "full" /\ p + Len(page) = Len(asc)
    BY <1>2, <1>3
  <2>2. PICK k \in 1..Len(asc) : asc[k] = m
    BY <1>6
  <2> QED BY <1>8, <2>1, <2>2
<1> QED BY <1>7, <1>9, <1>10

LEMMA ListEnds ==
  ASSUME HInv, NEW q \in query, List(q)
  PROVE  EndsWithTheLatest'
<1>1. TableOK /\ ScanOK /\ Query(q)
  BY DEF HInv, ScanOK
<1>2. createdAt' = createdAt /\ chat' = chat /\ Rows' = Rows
  BY DEF List, table, Rows
<1> SUFFICES ASSUME phase' = "done", chat, NEW m \in Rows
             PROVE  /\ transcript' # <<>>
                    /\ createdAt[m] <= createdAt[transcript'[Len(transcript')]]
  BY <1>2 DEF EndsWithTheLatest
<1>3. PICK asc \in Ascending, p \in Nat, page \in Seq(Messages) :
        /\ Slice(page, asc, p)
        /\ transcript' = transcript \o page
        /\ p + Len(page) = Len(asc)
        /\ q.name = "full" => p = Position(asc, cursor)
        /\ q.name = "limited" /\ Rows # {} => page # <<>>
  BY ListPage
<1>4. PICK k \in 1..Len(asc) : asc[k] = m
  BY <1>1, AscendingFacts
<1>5. Len(asc) \in 1..Len(asc) /\ createdAt[m] <= createdAt[asc[Len(asc)]]
  BY <1>1, <1>4, AscendingFacts
<1>6. transcript \in Seq(Messages)
  BY <1>1 DEF ScanOK
<1>7. CASE page # <<>>
  <2>1. Len(page) \in 1..Len(page) /\ page[Len(page)] = asc[Len(asc)]
    <3>1. Len(page) \in 1..Len(page)
      BY <1>7
    <3>2. page[Len(page)] = asc[p + Len(page)]
      BY <1>3, <3>1 DEF Slice
    <3> QED BY <1>3, <3>1, <3>2
  <2>2. /\ Len(transcript') = Len(transcript) + Len(page)
        /\ transcript'[Len(transcript) + Len(page)] = page[Len(page)]
        /\ transcript' \in Seq(Messages)
    BY <1>3, <1>6, <2>1, AppendFacts
  <2>3. transcript' # <<>>
    BY <1>6, <2>1, <2>2
  <2> QED BY <1>5, <2>1, <2>2, <2>3
<1>8. CASE page = <<>>
  <2>1. q.name = "full" /\ Position(asc, cursor) = Len(asc)
    BY <1>1, <1>3, <1>5, <1>8 DEF Query
  <2>2. transcript # <<>> /\ transcript[Len(transcript)] = asc[Len(asc)]
    BY <1>5, <2>1, WhereItStands
  <2>3. transcript' = transcript
    BY <1>3, <1>6, <1>8
  <2> QED BY <1>5, <2>2, <2>3
<1> QED BY <1>7, <1>8

LEMMA ListChronological ==
  ASSUME HInv, NEW q \in query, List(q)
  PROVE  Chronological'
<1>1. TableOK /\ ScanOK /\ Query(q) /\ Chronological
  BY DEF HInv, ScanOK
<1>2. /\ createdAt' = createdAt /\ chat' = chat /\ Rows' = Rows /\ Tied' = Tied
      /\ strategies' = strategies \cup {q.name}
  BY DEF List, table, Rows, Tied
<1>3. PICK asc \in Ascending, p \in Nat, page \in Seq(Messages) :
        /\ Slice(page, asc, p)
        /\ transcript' = transcript \o page
        /\ q.name = "full" => p = Position(asc, cursor)
  BY ListPage
<1> DEFINE n == Len(transcript)
<1> SUFFICES ASSUME Steady', chat,
                    NEW i \in DOMAIN transcript', NEW j \in DOMAIN transcript', i < j
             PROVE  /\ createdAt[transcript'[i]] <= createdAt[transcript'[j]]
                    /\ transcript'[i] = transcript'[j] => transcript'[i] \in Tied
  BY <1>2 DEF Chronological
<1>4. transcript \in Seq(Messages) /\ n \in Nat
  BY <1>1 DEF ScanOK
<1>5. /\ DOMAIN transcript' = 1..(n + Len(page)) /\ Len(page) \in Nat
      /\ \A k \in 1..n : transcript'[k] = transcript[k]
      /\ \A k \in 1..Len(page) : transcript'[n + k] = page[k]
  BY <1>3, <1>4, AppendFacts
<1>6. /\ asc \in Seq(Rows) /\ Len(asc) \in Nat
      /\ \A k, l \in 1..Len(asc) : k # l => asc[k] # asc[l]
      /\ \A k, l \in 1..Len(asc) : k <= l => createdAt[asc[k]] <= createdAt[asc[l]]
  BY <1>1, AscendingFacts
<1>7. \A k \in 1..Len(page) : page[k] = asc[p + k] /\ p + k \in 1..Len(asc)
  BY <1>3, <1>5, <1>6 DEF Slice
<1> HIDE DEF n
<1>8. CASE i \in 1..n /\ j \in 1..n
  <2>1. strategies # {"full", "limited"}
    <3>1. strategies' \subseteq {"full", "limited"}
      BY <1>1, <1>2 DEF ScanOK, Query
    <3>2. strategies' # {"full", "limited"}
      BY <3>1, SteadyPrimed
    <3> QED BY <1>1, <1>2, <3>1, <3>2 DEF ScanOK
  <2>2. Steady
    BY <1>1, <2>1, SteadyFacts DEF ScanOK
  <2>3. i \in DOMAIN transcript /\ j \in DOMAIN transcript
    BY <1>4, <1>8 DEF n
  <2> QED BY <1>1, <1>5, <1>8, <2>2, <2>3 DEF Chronological
<1>9. CASE i \notin 1..n
  <2>1. /\ i - n \in 1..Len(page) /\ j - n \in 1..Len(page) /\ i - n < j - n
        /\ n + (i - n) = i /\ n + (j - n) = j
    BY <1>4, <1>5, <1>9
  <2>2. /\ transcript'[i] = asc[p + (i - n)] /\ transcript'[j] = asc[p + (j - n)]
        /\ p + (i - n) \in 1..Len(asc) /\ p + (j - n) \in 1..Len(asc)
    BY <1>5, <1>7, <2>1
  <2>3. p + (i - n) <= p + (j - n) /\ p + (i - n) # p + (j - n)
    BY <1>4, <2>1
  <2> QED BY <1>6, <2>2, <2>3
<1>10. CASE i \in 1..n /\ j \notin 1..n
  <2>1. phase \in {"idle", "paging"} /\ n > 0
    BY <1>1, <1>4, <1>10 DEF ScanOK, Ended
  <2>2. phase = "paging"
    BY <1>1, <2>1 DEF ScanOK, n
  <2>3. q.name = "full"
    <3>1. strategies' \subseteq {"full", "limited"} /\ "full" \in strategies'
      BY <1>1, <1>2, <2>2 DEF ScanOK, Query
    <3>2. strategies' # {"full", "limited"}
      BY <3>1, SteadyPrimed
    <3> QED BY <1>1, <1>2, <3>1, <3>2 DEF Query
  <2>4. /\ p \in 1..Len(asc) /\ transcript[n] = asc[p]
    BY <1>3, <2>2, <2>3, WhereItStands DEF n
  <2>5. /\ transcript[i] \in Rows /\ asc[p] \in Rows
        /\ createdAt[transcript[i]] <= createdAt[asc[p]]
    BY <1>4, <1>10, <2>2, <2>4, ShownIsBefore DEF n
  <2>6. j - n \in 1..Len(page) /\ n + (j - n) = j
    BY <1>4, <1>5, <1>10
  <2>7. transcript'[j] = asc[p + (j - n)] /\ p + (j - n) \in 1..Len(asc) /\ transcript'[i] = transcript[i]
    BY <1>5, <1>7, <1>10, <2>6
  <2>8. p <= p + (j - n) /\ p # p + (j - n)
    BY <2>4, <2>6
  <2>9. /\ createdAt[asc[p]] <= createdAt[asc[p + (j - n)]] /\ asc[p] # asc[p + (j - n)]
        /\ asc[p + (j - n)] \in Rows
    BY <1>6, <2>4, <2>7, <2>8
  <2>10. /\ createdAt[transcript'[i]] \in Nat /\ createdAt[asc[p]] \in Nat
         /\ createdAt[transcript'[j]] \in Nat
    BY <1>1, <2>5, <2>7, <2>9 DEF TableOK
  <2>11. createdAt[transcript'[i]] <= createdAt[transcript'[j]]
    BY <2>5, <2>7, <2>9, <2>10
  <2>12. ASSUME transcript'[i] = transcript'[j] PROVE transcript'[i] \in Tied
    <3>1. createdAt[asc[p]] = createdAt[transcript'[i]] /\ asc[p] # transcript'[i]
      BY <2>5, <2>7, <2>9, <2>10, <2>12
    <3> QED BY <2>5, <2>7, <3>1 DEF Tied
  <2> QED BY <2>11, <2>12
<1> QED BY <1>8, <1>9, <1>10
-----------------------------------------------------------------------------
(* The other steps *)

\* A message that arrives is later than the cursor, or it is noted.
LEMMA CreateHInv ==
  ASSUME HInv, ~Ended, NEW m \in Messages, NEW t \in 0..now, Create(m, t)
  PROVE  HInv'
<1>1. TableOK /\ ScanOK /\ chat /\ Shown \subseteq Rows /\ RestIsLater
  BY DEF HInv, Create
<1>2. UNCHANGED <<now, chat, count, phase, query, cursor, transcript, strategies>>
  BY DEF Create, scan, flags
<1>3. /\ Rows' = Rows \cup {m} /\ m \notin Rows /\ createdAt'[m] = t
      /\ \A o \in Rows : createdAt'[o] = createdAt[o]
  BY DEF Create, Rows
<1>4. TableOK'
  <2>1. IsFiniteSet(Rows')
    BY <1>1, <1>3, FS_AddElement DEF TableOK
  <2> QED BY <1>1, <1>2, <1>3, <2>1 DEF TableOK
<1>5. ScanOK'
  BY <1>1, <1>2 DEF ScanOK, Ended, Query
<1>6. Shown' = Shown /\ Shown' \subseteq Rows'
  BY <1>1, <1>2, <1>3 DEF Shown
<1>7. Tied \subseteq Tied'
  BY <1>3 DEF Tied
<1>8. behind \subseteq behind'
  BY DEF Create
<1>9. RestIsLater'
  <2> SUFFICES ASSUME phase = "paging",
                      NEW o \in Rows', o \notin Shown \cup behind' \cup Tied',
                      NEW c \in cursor
               PROVE  createdAt'[o] > createdAt'[c]
    BY <1>2, <1>6 DEF RestIsLater
  <2>1. c \in Rows
    BY <1>1 DEF ScanOK, Shown, Range
  <2>2. CASE o \in Rows
    BY <1>1, <1>3, <1>7, <1>8, <2>1, <2>2 DEF RestIsLater
  <2>3. CASE o = m
    <3>1. ~(t <= createdAt[c])
      BY <2>3 DEF Create
    <3>2. t \in Nat /\ createdAt[c] \in Nat
      BY <1>1, <2>1 DEF TableOK
    <3> QED BY <1>3, <2>1, <2>3, <3>1, <3>2
  <2> QED BY <1>3, <2>2, <2>3
<1>10. Chronological'
  <2>1. transcript \in Seq(Messages) /\ \A i \in DOMAIN transcript : transcript[i] \in Rows
    BY <1>1 DEF ScanOK, Shown, Range
  <2>2. Steady' <=> Steady
    BY <1>2 DEF Steady
  <2> QED BY <1>1, <1>2, <1>3, <1>7, <2>1, <2>2 DEF HInv, Chronological
<1>11. phase' # "done"
  BY <1>2 DEF Ended
<1> QED BY <1>4, <1>5, <1>6, <1>9, <1>10, <1>11 DEF HInv, MissedOnlyBehind, EndsWithTheLatest

LEMMA DeleteChatHInv ==
  ASSUME HInv, ~Ended, DeleteChat
  PROVE  HInv'
<1>1. /\ chat' = FALSE /\ Rows' = {} /\ UNCHANGED <<now, count, phase, query, cursor, transcript, strategies>>
  BY DEF DeleteChat, scan, flags, history, Rows
<1>2. TableOK' /\ ScanOK'
  BY <1>1, FS_EmptySet DEF HInv, TableOK, ScanOK, Ended, Query
<1> QED BY <1>1, <1>2 DEF HInv, MissedOnlyBehind, Chronological, EndsWithTheLatest

\* Steps that touch neither rows nor what was shown
LEMMA QuietHInv ==
  ASSUME HInv, TableOK', ScanOK',
         UNCHANGED <<createdAt, chat, cursor, transcript, strategies, behind>>,
         phase' = phase \/ phase' \notin {"paging", "done"}
  PROVE  HInv'
<1>1. Rows' = Rows /\ Shown' = Shown /\ Tied' = Tied /\ (Steady' <=> Steady)
  BY DEF Rows, Shown, Tied, Steady
<1>2. chat' => Shown' \subseteq Rows' /\ RestIsLater'
  BY <1>1 DEF HInv, RestIsLater
<1>3. MissedOnlyBehind' /\ EndsWithTheLatest'
  BY <1>1 DEF HInv, MissedOnlyBehind, EndsWithTheLatest
<1>4. Chronological'
  BY <1>1 DEF HInv, Chronological
<1> QED BY <1>2, <1>3, <1>4 DEF HInv

LEMMA FindChatHInv ==
  ASSUME HInv, NEW mobile \in BOOLEAN, FindChat(mobile)
  PROVE  HInv'
<1>1. TableOK /\ ScanOK
  BY DEF HInv
<1>2. /\ UNCHANGED <<now, createdAt, chat, count, cursor, transcript, strategies, behind>>
      /\ \/ query' = {Resolve(mobile)} /\ phase' = phase /\ ~Ended
         \/ query' = {} /\ phase' = "notFound"
  BY DEF FindChat, table, flags, history
<1>3. TableOK'
  BY <1>1, <1>2 DEF TableOK, Rows
<1>4. Query(Resolve(mobile))
  BY <1>1 DEF Resolve, Limited, Full, Query, TableOK
<1>5. ScanOK'
  <2>1. CASE query' = {Resolve(mobile)} /\ phase' = phase /\ ~Ended
    BY <1>1, <1>2, <1>4, <2>1 DEF ScanOK, Ended, Query
  <2>2. CASE query' = {} /\ phase' = "notFound"
    BY <1>1, <1>2, <2>2 DEF ScanOK
  <2> QED BY <1>2, <2>1, <2>2
<1> QED BY <1>2, <1>3, <1>5, QuietHInv

LEMMA HInvStep == HInv /\ [Next]_vars => HInv'
<1> SUFFICES ASSUME HInv, [Next]_vars
             PROVE  HInv'
  OBVIOUS
<1>1. TableOK /\ ScanOK
  BY DEF HInv
<1>2. ASSUME NEW q \in query, List(q)
      PROVE  HInv'
  BY <1>2, ListScanOK, ListShows, ListEnds, ListChronological DEF HInv, MissedOnlyBehind
<1>3. CASE ListFails
  <2>1. query' = {} /\ UNCHANGED <<now, createdAt, chat, count, phase, cursor, transcript, strategies, behind>>
    BY <1>3 DEF ListFails, table, flags, history
  <2>2. TableOK' /\ ScanOK'
    BY <1>1, <2>1 DEF TableOK, ScanOK, Rows, Ended
  <2> QED BY <2>1, <2>2, QuietHInv
<1>4. CASE Reopen
  <2>1. /\ UNCHANGED <<now, createdAt, chat, count, query>> /\ query' = {}
        /\ phase' = "idle" /\ cursor' = {} /\ transcript' = <<>> /\ strategies' = {}
    BY <1>1, <1>4 DEF Reopen, table, flags, ScanOK
  <2>2. TableOK' /\ ScanOK'
    BY <1>1, <2>1 DEF TableOK, ScanOK, Rows
  <2>3. Shown' = {}
    BY <2>1 DEF Shown, Range
  <2> QED BY <2>1, <2>2, <2>3 DEF HInv, RestIsLater, MissedOnlyBehind, Chronological, EndsWithTheLatest
<1>5. ASSUME NEW e \in BOOLEAN, NEW n \in LimitedCounts, SetFlags(e, n)
      PROVE  HInv'
  <2>1. count' = n /\ UNCHANGED <<now, createdAt, chat, phase, query, cursor, transcript, strategies, behind>>
    BY <1>5 DEF SetFlags, table, scan, history
  <2>2. TableOK' /\ ScanOK'
    BY <1>1, <2>1, SizeAssumption DEF TableOK, ScanOK, Rows, Ended, Query
  <2> QED BY <2>1, <2>2, QuietHInv
<1>6. CASE Tick
  <2>1. now' = now + 1 /\ UNCHANGED <<createdAt, chat, count, phase, query, cursor, transcript, strategies, behind>>
    BY <1>6 DEF Tick, flags, scan, history
  <2>2. TableOK' /\ ScanOK'
    BY <1>1, <2>1 DEF TableOK, ScanOK, Rows, Ended, Query
  <2> QED BY <2>1, <2>2, QuietHInv
<1>7. CASE UNCHANGED vars
  <2>1. UNCHANGED <<now, createdAt, chat, count, phase, query, cursor, transcript, strategies, behind>>
    BY <1>7 DEF vars, table, flags, scan, history
  <2>2. TableOK' /\ ScanOK'
    BY <1>1, <2>1 DEF TableOK, ScanOK, Rows, Ended, Query
  <2> QED BY <2>1, <2>2, QuietHInv
<1>8. CASE Scan
  BY <1>2, <1>3, <1>4, <1>8, FindChatHInv DEF Scan
<1>9. CASE Environment
  BY <1>5, <1>6, <1>9, CreateHInv, DeleteChatHInv DEF Environment
<1> QED BY <1>7, <1>8, <1>9 DEF Next

LEMMA HInvCorrect == Spec => []HInv
<1>1. ASSUME Init
      PROVE  HInv
  <2>1. Rows = {} /\ chat = TRUE /\ now = 0 /\ count \in Nat \ {0}
    BY <1>1, SizeAssumption DEF Init, Rows
  <2>2. TableOK
    BY <2>1, FS_EmptySet DEF TableOK
  <2>3. ScanOK
    BY <1>1 DEF Init, ScanOK
  <2>4. Shown = {}
    BY <1>1 DEF Init, Shown, Range
  <2> QED BY <1>1, <2>2, <2>3, <2>4 DEF Init, HInv, RestIsLater, MissedOnlyBehind, Chronological, EndsWithTheLatest
<1> QED BY <1>1, HInvStep, PTL DEF Spec

\* A scan of full pages that ended has shown every message there is, however
\* many arrived meanwhile, except those that committed behind the cursor and
\* those without an order of their own.
THEOREM MissedOnlyBehindCorrect == Spec => []MissedOnlyBehind
<1>1. HInv => MissedOnlyBehind
  BY DEF HInv
<1> QED BY <1>1, HInvCorrect, PTL

\* As long as the strategy stays, the pages are in the order of time, and only
\* messages of one instant can come twice.
THEOREM ChronologicalCorrect == Spec => []Chronological
<1>1. HInv => Chronological
  BY DEF HInv
<1> QED BY <1>1, HInvCorrect, PTL

\* However the flags changed during the scan, nothing that was there is newer
\* than the last message shown.
THEOREM EndsWithTheLatestCorrect == Spec => []EndsWithTheLatest
<1>1. HInv => EndsWithTheLatest
  BY DEF HInv
<1> QED BY <1>1, HInvCorrect, PTL

=============================================================================
