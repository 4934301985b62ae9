----------------------------- MODULE ListProofs ------------------------------
(***************************************************************************)
(* The chat list page by page, for any number of chats, any sizes of a     *)
(* page and any changes between two pages.                                 *)
(***************************************************************************)
EXTENDS ChatList, FiniteSetTheorems, TLAPS

\* The chats in the order of time, and by id at one instant
TableOK ==
  /\ now \in Nat /\ limit \in Nat \ {0}
  /\ Rows \subseteq born /\ born \subseteq Nat /\ IsFiniteSet(Rows)
  /\ \A c \in Rows : updatedAt[c] \in Nat
  /\ \A t \in inFlight : t.time \in Nat

-----------------------------------------------------------------------------
(* Finite sets in order *)

LEMMA SmallestSet ==
  ASSUME NEW F, \A s \in F : IsFiniteSet(s), F # {}
  PROVE  \E x \in F : \A y \in F : y \subseteq x => y = x
<1> DEFINE S == UNION F
<1>1. F \subseteq FiniteSubsetsOf(S)
  BY DEF FiniteSubsetsOf
<1>2. IsWellFoundedOn(StrictSubsetOrdering(S), FiniteSubsetsOf(S))
  BY FS_StrictSubsetOrderingWellFounded
<1>3. PICK x \in F : \A y \in F : ~(<<y, x>> \in StrictSubsetOrdering(S))
  BY <1>1, <1>2, WFMin
<1>4. ASSUME NEW y \in F, y \subseteq x, y # x
      PROVE  FALSE
  <2>1. <<y, x>> \in StrictSubsetOrdering(S)
    BY <1>4 DEF StrictSubsetOrdering
  <2> QED BY <1>3, <2>1
<1> QED BY <1>4

\* A finite set has an element that nothing in it precedes.
LEMMA LeastOfFinite ==
  ASSUME NEW Q, IsFiniteSet(Q), Q # {}, NEW R,
         \A a \in Q : <<a, a>> \notin R,
         \A a, b, c \in Q : <<a, b>> \in R /\ <<b, c>> \in R => <<a, c>> \in R
  PROVE  \E a \in Q : \A b \in Q : <<b, a>> \notin R
<1> DEFINE Below(c) == {d \in Q : <<d, c>> \in R}
           F == {Below(c) : c \in Q}
<1>1. \A s \in F : IsFiniteSet(s)
  <2>1. ASSUME NEW c \in Q PROVE IsFiniteSet(Below(c))
    <3>1. Below(c) \in SUBSET Q
      OBVIOUS
    <3> QED BY <3>1, FS_Subset
  <2> QED BY <2>1
<1>2. F # {}
  <2>1. PICK c : c \in Q
    OBVIOUS
  <2>2. Below(c) \in F
    BY <2>1
  <2> QED BY <2>2
<1>3. PICK x \in F : \A y \in F : y \subseteq x => y = x
  <2> HIDE DEF F
  <2> QED BY <1>1, <1>2, SmallestSet
<1>4. PICK a \in Q : x = Below(a)
  OBVIOUS
<1>5. ASSUME NEW b \in Q, <<b, a>> \in R
      PROVE  FALSE
  <2>1. Below(b) \subseteq Below(a) /\ b \in Below(a) /\ b \notin Below(b)
    BY <1>5
  <2>2. Below(b) \in F
    OBVIOUS
  <2> QED BY <1>3, <1>4, <2>1, <2>2
<1> QED BY <1>5

LEMMA NewerOrders ==
  ASSUME TableOK, NEW c \in Rows, NEW d \in Rows
  PROVE  /\ ~Newer(c, c)
         /\ Newer(c, d) => ~Newer(d, c)
         /\ c # d => Newer(c, d) \/ Newer(d, c)
         /\ \A e \in Rows : Newer(c, d) /\ Newer(d, e) => Newer(c, e)
<1>1. /\ c \in Nat /\ d \in Nat /\ \A e \in Rows : e \in Nat /\ updatedAt[e] \in Nat
  BY DEF TableOK
<1> QED BY <1>1 DEF Newer

LEMMA OldestOf ==
  ASSUME TableOK, NEW Q \in SUBSET Rows, Q # {}
  PROVE  \E a \in Q : \A b \in Q \ {a} : Newer(b, a)
<1> DEFINE R == {ss \in Q \X Q : Newer(ss[2], ss[1])}
<1>1. IsFiniteSet(Q)
  BY FS_Subset DEF TableOK
<1>2. \A a, b \in Q : <<b, a>> \in R <=> Newer(a, b)
  OBVIOUS
<1> HIDE DEF R
<1>3. \A a \in Q : <<a, a>> \notin R
  BY <1>2, NewerOrders
<1>4. ASSUME NEW a \in Q, NEW b \in Q, NEW c \in Q, <<a, b>> \in R, <<b, c>> \in R
      PROVE  <<a, c>> \in R
  BY <1>2, <1>4, NewerOrders
<1>5. PICK a \in Q : \A b \in Q : <<b, a>> \notin R
  BY <1>1, <1>3, <1>4, LeastOfFinite
<1>6. ASSUME NEW b \in Q, b # a
      PROVE  Newer(b, a)
  BY <1>2, <1>5, <1>6, NewerOrders
<1> QED BY <1>6

LEMMA NewestOf ==
  ASSUME TableOK, NEW Q \in SUBSET Rows, Q # {}
  PROVE  \E a \in Q : \A b \in Q : ~Newer(b, a)
<1> DEFINE R == {ss \in Q \X Q : Newer(ss[1], ss[2])}
<1>1. IsFiniteSet(Q)
  BY FS_Subset DEF TableOK
<1>2. \A a, b \in Q : <<b, a>> \in R <=> Newer(b, a)
  OBVIOUS
<1> HIDE DEF R
<1>3. \A a \in Q : <<a, a>> \notin R
  BY <1>2, NewerOrders
<1>4. ASSUME NEW a \in Q, NEW b \in Q, NEW c \in Q, <<a, b>> \in R, <<b, c>> \in R
      PROVE  <<a, c>> \in R
  BY <1>2, <1>4, NewerOrders
<1>5. PICK a \in Q : \A b \in Q : <<b, a>> \notin R
  BY <1>1, <1>3, <1>4, LeastOfFinite
<1> QED BY <1>2, <1>5

-----------------------------------------------------------------------------
(* A page holds the newest of the rows, and the cursor its oldest. *)

LEMMA RankGrows ==
  ASSUME TableOK, NEW Q \in SUBSET Rows, NEW c \in Q, NEW d \in Q, Newer(c, d)
  PROVE  /\ Cardinality({x \in Q : Newer(x, c)}) \in Nat
         /\ Cardinality({x \in Q : Newer(x, d)}) \in Nat
         /\ Cardinality({x \in Q : Newer(x, c)}) < Cardinality({x \in Q : Newer(x, d)})
<1> DEFINE A == {x \in Q : Newer(x, c)}
           B == {x \in Q : Newer(x, d)}
<1>1. IsFiniteSet(Q)
  BY FS_Subset DEF TableOK
<1>2. B \in SUBSET Q
  OBVIOUS
<1>3. A \in SUBSET B
  BY NewerOrders
<1>4. c \in B /\ c \notin A
  BY NewerOrders
<1> HIDE DEF A, B
<1>5. IsFiniteSet(B)
  BY <1>1, <1>2, FS_Subset
<1>6. IsFiniteSet(A) /\ Cardinality(A) <= Cardinality(B) /\ (Cardinality(A) = Cardinality(B) => B = A)
  BY <1>3, <1>5, FS_Subset
<1>7. Cardinality(A) \in Nat /\ Cardinality(B) \in Nat /\ Cardinality(A) < Cardinality(B)
  BY <1>4, <1>5, <1>6, FS_CardinalityType
<1> QED BY <1>7 DEF A, B

LEMMA RankBounds ==
  ASSUME TableOK, NEW Q \in SUBSET Rows, NEW c \in Q
  PROVE  /\ Cardinality({x \in Q : Newer(x, c)}) \in Nat /\ Cardinality(Q) \in Nat
         /\ Cardinality({x \in Q : Newer(x, c)}) < Cardinality(Q)
<1> DEFINE A == {x \in Q : Newer(x, c)}
<1>1. IsFiniteSet(Q)
  BY FS_Subset DEF TableOK
<1>2. A \in SUBSET Q /\ c \notin A
  BY NewerOrders
<1> HIDE DEF A
<1>3. IsFiniteSet(A) /\ Cardinality(A) <= Cardinality(Q) /\ (Cardinality(A) = Cardinality(Q) => Q = A)
  BY <1>1, <1>2, FS_Subset
<1>4. Cardinality(A) \in Nat /\ Cardinality(Q) \in Nat /\ Cardinality(A) < Cardinality(Q)
  BY <1>1, <1>2, <1>3, FS_CardinalityType
<1> QED BY <1>4 DEF A

LEMMA PageFacts ==
  ASSUME TableOK, NEW Q \in SUBSET Rows, NEW take \in Nat \ {0}
  PROVE  /\ Page(Q, take) \subseteq Q
         /\ \/ NextCursor(Q, take) = {} /\ Page(Q, take) = Q
            \/ \E e \in Page(Q, take) :
                 /\ NextCursor(Q, take) = {e}
                 /\ \A c \in Page(Q, take) \ {e} : Newer(c, e)
                 /\ \A c \in Q \ Page(Q, take) : Newer(e, c)
<1> DEFINE rank(c) == Cardinality({x \in Q : Newer(x, c)})
           page == Page(Q, take)
<1>1. \A c : c \in page <=> c \in Q /\ rank(c) < take
  BY DEF Page
<1>2. \A c \in Q : rank(c) \in Nat /\ rank(c) < Cardinality(Q) /\ Cardinality(Q) \in Nat
  BY RankBounds
<1>3. \A c, d \in Q : Newer(c, d) => rank(c) < rank(d)
  BY RankGrows
<1>4. ASSUME Q # {}
      PROVE  page # {}
  <2>1. PICK a \in Q : \A b \in Q : ~Newer(b, a)
    BY <1>4, NewestOf
  <2>2. {x \in Q : Newer(x, a)} = {}
    BY <2>1
  <2>3. rank(a) = 0
    BY <2>2, FS_EmptySet
  <2> QED BY <1>1, <2>3
<1> HIDE DEF rank, page
<1>5. Cardinality(Q) \in Nat /\ (Q = {} => Cardinality(Q) = 0)
  BY FS_Subset, FS_CardinalityType, FS_EmptySet DEF TableOK
<1>6. CASE Cardinality(Q) > take
  <2>1. page # {} /\ page \in SUBSET Rows /\ page \subseteq Q
    BY <1>1, <1>4, <1>5, <1>6
  <2>2. PICK e \in page : \A b \in page \ {e} : Newer(b, e)
    BY <2>1, OldestOf
  <2>3. Oldest(page) = {e}
    <3>1. ASSUME NEW o \in Oldest(page), o # e
          PROVE  FALSE
      <4>1. o \in page /\ Newer(e, o) /\ Newer(o, e)
        BY <2>2, <3>1 DEF Oldest
      <4> QED BY <2>1, <4>1, NewerOrders
    <3>2. e \in Oldest(page)
      BY <2>2 DEF Oldest
    <3> QED BY <3>1, <3>2
  <2>4. NextCursor(Q, take) = {e}
    BY <1>6, <2>3 DEF NextCursor, page
  <2>5. ASSUME NEW c \in Q \ page
        PROVE  Newer(e, c)
    <3>1. ~(rank(c) < take) /\ rank(e) < take /\ e \in Q
      BY <1>1
    <3>2. ~Newer(c, e) /\ c # e
      BY <1>2, <1>3, <3>1
    <3> QED BY <3>1, <3>2, NewerOrders
  <2> QED BY <2>1, <2>2, <2>4, <2>5 DEF page
<1>7. CASE ~(Cardinality(Q) > take)
  <2>1. \A c \in Q : rank(c) < take
    BY <1>2, <1>7
  <2>2. page = Q
    BY <1>1, <2>1
  <2>3. NextCursor(Q, take) = {}
    BY <1>7 DEF NextCursor
  <2> QED BY <2>2, <2>3 DEF page
<1> QED BY <1>6, <1>7
-----------------------------------------------------------------------------
(***************************************************************************)
(* Between two pages, what stayed where it was and was not shown comes     *)
(* after the cursor; and what was shown comes before, as long as nothing   *)
(* moved at all.                                                           *)
(***************************************************************************)

Standing ==
  /\ phase \in {"idle", "paging", "done"}
  /\ phase = "idle" => /\ cursor = {} /\ shown = {} /\ repeated = {}
                           /\ first = {} /\ moved = {} /\ ~back
  /\ phase = "paging" => \E e : cursor = {e}
  /\ back => moved # {}

QuietAreAfter ==
  phase = "paging" /\ ~back =>
    \A c \in first \ (moved \cup shown), e \in cursor :
      c \in Rows /\ e \in Rows /\ Newer(e, c)

ShownAreBefore ==
  phase = "paging" /\ moved = {} =>
    /\ shown \subseteq Rows
    /\ \A c \in shown, e \in cursor : e \in Rows /\ (c = e \/ Newer(c, e))

LInv ==
  /\ TableOK /\ Standing /\ QuietAreAfter /\ ShownAreBefore
  /\ StableUnderInserts /\ QuietAreShown

\* A page continues after the cursor, and the next one after its oldest chat.
LEMMA ReadLInv ==
  ASSUME LInv, NEW mobile \in BOOLEAN, NEW asked \in Asked, Read(mobile, asked)
  PROVE  LInv'
<1> DEFINE take == Smaller(asked, EffectiveCap(mobile))
           rows == After(cursor)
           page == Page(rows, take)
<1>1. TableOK /\ Standing
  BY DEF LInv
<1>2. /\ UNCHANGED <<now, updatedAt, born, inFlight, limit, moved, back>>
      /\ Rows' = Rows /\ phase # "done"
      /\ shown' = shown \cup page /\ repeated' = repeated \cup (shown \cap page)
      /\ cursor' = NextCursor(rows, take)
      /\ phase' = IF cursor' = {} THEN "done" ELSE "paging"
      /\ first' = IF phase = "idle" THEN Rows ELSE first
  BY DEF Read, table, history, Rows
<1>3. take \in Nat \ {0}
  BY <1>1, SizeAssumption DEF TableOK, Smaller, EffectiveCap
<1>4. rows \in SUBSET Rows
  BY DEF After
<1>5. /\ page \subseteq rows
      /\ \/ cursor' = {} /\ page = rows
         \/ \E e \in page :
              /\ cursor' = {e}
              /\ \A c \in page \ {e} : Newer(c, e)
              /\ \A c \in rows \ page : Newer(e, c)
  BY <1>1, <1>2, <1>3, <1>4, PageFacts
<1>6. \A c : c \in rows <=> c \in Rows /\ \A e \in cursor : e \in Rows /\ Newer(e, c)
  BY DEF After
<1> HIDE DEF take, rows, page
<1>7. TableOK'
  BY <1>1, <1>2 DEF TableOK
<1>8. Standing'
  BY <1>1, <1>2, <1>5 DEF Standing
<1>9. \A c, d : Newer(c, d)' <=> Newer(c, d)
  BY <1>2 DEF Newer
<1>10. ASSUME ~back, NEW c \in first' \ (moved \cup shown)
       PROVE  c \in rows
  <2>1. CASE phase = "idle"
    BY <1>1, <1>2, <1>6, <1>10, <2>1 DEF Standing
  <2>2. CASE phase = "paging"
    <3>1. c \in first \ (moved \cup shown)
      BY <1>2, <2>2
    <3>2. \A e \in cursor : c \in Rows /\ e \in Rows /\ Newer(e, c)
      BY <1>10, <2>2, <3>1 DEF LInv, QuietAreAfter
    <3>3. \E e : e \in cursor
      BY <1>1, <2>2 DEF Standing
    <3> QED BY <1>6, <3>2, <3>3
  <2> QED BY <1>1, <1>2, <2>1, <2>2 DEF Standing
<1>11. QuietAreAfter'
  <2> SUFFICES ASSUME phase' = "paging", ~back,
                      NEW c \in first' \ (moved \cup shown'), NEW e \in cursor'
               PROVE  c \in Rows /\ e \in Rows /\ Newer(e, c)
    BY <1>2, <1>9 DEF QuietAreAfter
  <2>1. c \in rows \ page
    BY <1>2, <1>10
  <2>2. e \in page /\ Newer(e, c)
    BY <1>2, <1>5, <2>1
  <2> QED BY <1>4, <1>5, <2>1, <2>2
<1>12. ASSUME moved = {}, phase = "paging"
       PROVE  shown \cap page = {}
  <2>1. ASSUME NEW c \in shown, c \in page
        PROVE  FALSE
    <3>1. PICK e : cursor = {e}
      BY <1>1, <1>12 DEF Standing
    <3>2. c \in Rows /\ e \in Rows /\ Newer(e, c)
      BY <1>4, <1>5, <1>6, <2>1, <3>1
    <3>3. c = e \/ Newer(c, e)
      BY <1>12, <2>1, <3>1 DEF LInv, ShownAreBefore
    <3> QED BY <1>1, <3>2, <3>3, NewerOrders
  <2> QED BY <2>1
<1>13. ShownAreBefore'
  <2> SUFFICES ASSUME phase' = "paging", moved = {}
               PROVE  /\ shown' \subseteq Rows
                      /\ \A c \in shown', e \in cursor' : e \in Rows /\ (c = e \/ Newer(c, e))
    BY <1>2, <1>9 DEF ShownAreBefore
  <2>1. PICK n \in page : cursor' = {n} /\ \A c \in page \ {n} : Newer(c, n)
    BY <1>2, <1>5
  <2>2. n \in rows /\ n \in Rows /\ page \subseteq Rows
    BY <1>4, <1>5
  <2>3. CASE phase = "idle"
    BY <1>1, <1>2, <2>1, <2>2, <2>3 DEF Standing
  <2>4. CASE phase = "paging"
    <3>1. PICK e : cursor = {e}
      BY <1>1, <2>4 DEF Standing
    <3>2. e \in Rows /\ Newer(e, n)
      BY <1>6, <2>2, <3>1
    <3>3. shown \subseteq Rows /\ \A c \in shown : c = e \/ Newer(c, e)
      BY <2>4, <3>1 DEF LInv, ShownAreBefore
    <3>4. \A c \in shown : Newer(c, n)
      BY <1>1, <2>2, <3>2, <3>3, NewerOrders
    <3> QED BY <1>2, <2>1, <2>2, <3>3, <3>4
  <2> QED BY <1>1, <1>2, <2>3, <2>4 DEF Standing
<1>14. ASSUME phase' = "done", ~back
       PROVE  first' \ moved \subseteq shown'
  <2>1. page = rows
    BY <1>2, <1>5, <1>14
  <2> QED BY <1>2, <1>10, <1>14, <2>1
<1>15. moved = {} => repeated' = {}
  <2>1. phase = "idle" => shown = {}
    BY <1>1 DEF Standing
  <2> QED BY <1>1, <1>2, <1>12, <2>1 DEF LInv, Standing, StableUnderInserts
<1>16. moved = {} => ~back
  BY <1>1 DEF Standing
<1>17. StableUnderInserts'
  BY <1>2, <1>14, <1>15, <1>16 DEF StableUnderInserts
<1>18. QuietAreShown'
  BY <1>2, <1>14 DEF QuietAreShown
<1> QED BY <1>7, <1>8, <1>11, <1>13, <1>17, <1>18 DEF LInv

\* What happens before the first page and after the last matters to no scan.
LEMMA OutsideLInv ==
  ASSUME LInv, TableOK', phase # "paging",
         UNCHANGED <<phase, cursor, shown, repeated, first, moved, back>>
  PROVE  LInv'
<1>1. Standing' /\ QuietAreAfter' /\ ShownAreBefore'
  BY DEF LInv, Standing, QuietAreAfter, ShownAreBefore
<1> QED BY <1>1
        DEF LInv, StableUnderInserts, QuietAreShown

\* A touch that lands after a later one
LEMMA BackwardsLInv ==
  ASSUME LInv, TableOK', phase = "paging", back', moved' # {},
         UNCHANGED <<phase, cursor, shown, repeated, first>>
  PROVE  LInv'
<1>1. Standing' /\ QuietAreAfter' /\ ShownAreBefore'
  BY DEF LInv, Standing, QuietAreAfter, ShownAreBefore
<1> QED BY <1>1 DEF LInv, StableUnderInserts, QuietAreShown

\* A step that brings no row back, and notes those it moves or deletes
LEMMA KeepsLInv ==
  ASSUME LInv, TableOK', NEW gone,
         UNCHANGED <<phase, cursor, shown, repeated, first>>,
         phase = "paging", moved' = moved \cup gone, back' = back,
         \/ \A c \in Rows : c \in Rows' /\ (c \notin gone => updatedAt'[c] = updatedAt[c])
                                           /\ updatedAt'[c] >= updatedAt[c]
         \/ gone = Rows
  PROVE  LInv'
<1>1. TableOK /\ Standing /\ QuietAreAfter /\ ShownAreBefore /\ StableUnderInserts /\ QuietAreShown
  BY DEF LInv
<1>2. Standing'
  BY <1>1 DEF Standing
<1>3. ASSUME NEW c \in Rows, NEW d \in Rows, c \notin gone, gone # Rows, Newer(d, c)
      PROVE  c \in Rows' /\ d \in Rows' /\ Newer(d, c)'
  <2>1. /\ c \in Rows' /\ d \in Rows' /\ updatedAt'[c] = updatedAt[c] /\ updatedAt'[d] >= updatedAt[d]
    BY <1>3
  <2>2. updatedAt[c] \in Nat /\ updatedAt[d] \in Nat /\ updatedAt'[d] \in Nat /\ c \in Nat /\ d \in Nat
    BY <1>1, <2>1 DEF TableOK
  <2> QED BY <1>3, <2>1, <2>2 DEF Newer
<1>4. QuietAreAfter'
  <2> SUFFICES ASSUME phase = "paging", ~back',
                      NEW c \in first \ (moved' \cup shown), NEW e \in cursor
               PROVE  c \in Rows' /\ e \in Rows' /\ Newer(e, c)'
    BY DEF QuietAreAfter
  <2>1. ~back /\ c \notin gone /\ c \notin moved
    OBVIOUS
  <2>2. c \in Rows /\ e \in Rows /\ Newer(e, c)
    BY <1>1, <2>1 DEF QuietAreAfter
  <2> QED BY <1>3, <2>1, <2>2
<1>5. ShownAreBefore'
  <2> SUFFICES ASSUME phase = "paging", moved' = {}
               PROVE  /\ shown \subseteq Rows'
                      /\ \A c \in shown, e \in cursor : e \in Rows' /\ (c = e \/ Newer(c, e)')
    BY DEF ShownAreBefore
  <2>1. moved = {} /\ gone = {}
    OBVIOUS
  <2>2. shown \subseteq Rows /\ \A c \in shown, e \in cursor : e \in Rows /\ (c = e \/ Newer(c, e))
    BY <1>1, <2>1 DEF ShownAreBefore
  <2>3. ASSUME NEW c \in Rows
        PROVE  c \in Rows' /\ gone # Rows
    BY <2>1
  <2> QED BY <1>3, <2>1, <2>2, <2>3
<1>6. StableUnderInserts'
  BY <1>1 DEF StableUnderInserts
<1>7. QuietAreShown'
  BY <1>1 DEF QuietAreShown
<1> QED BY <1>2, <1>4, <1>5, <1>6, <1>7 DEF LInv

\* Rows that are there keep their time: nothing is gone.
LEMMA InsertLInv ==
  ASSUME LInv, TableOK',
         UNCHANGED <<phase, cursor, shown, repeated, first, moved, back>>,
         \A c \in Rows : c \in Rows' /\ updatedAt'[c] = updatedAt[c]
  PROVE  LInv'
<1>1. CASE phase = "paging"
  <2>1. moved' = moved \cup {} /\ back' = back
    OBVIOUS
  <2>2. \A c \in Rows : c \in Rows' /\ updatedAt'[c] = updatedAt[c] /\ updatedAt'[c] >= updatedAt[c]
    BY DEF LInv, TableOK
  <2>3. PICK gone : gone = {}
    OBVIOUS
  <2> QED BY <1>1, <2>1, <2>2, <2>3, KeepsLInv
<1>2. CASE phase # "paging"
  BY <1>2, OutsideLInv
<1> QED BY <1>1, <1>2

LEMMA CreateLInv ==
  ASSUME LInv, NEW c \in Chats, NEW t \in 0..now, Create(c, t)
  PROVE  LInv'
<1>1. TableOK
  BY DEF LInv
<1>2. /\ UNCHANGED <<now, inFlight, limit, phase, cursor, shown, repeated, first, moved, back>>
      /\ c \notin born /\ born' = born \cup {c}
      /\ Rows' = Rows \cup {c} /\ updatedAt'[c] = t
      /\ \A d \in Rows \ {c} : updatedAt'[d] = updatedAt[d]
  BY DEF Create, scan, history, Rows
<1>3. c \notin Rows /\ c \in Nat /\ t \in Nat
  BY <1>1, <1>2, ChatAssumption DEF TableOK
<1>4. IsFiniteSet(Rows')
  BY <1>1, <1>2, FS_AddElement DEF TableOK
<1>5. TableOK'
  BY <1>1, <1>2, <1>3, <1>4 DEF TableOK
<1> QED BY <1>2, <1>3, <1>5, InsertLInv

\* An update that lands, forwards or backwards, or fails
LEMMA LandLInv ==
  ASSUME LInv, NEW t \in inFlight, Land(t)
  PROVE  LInv'
<1>1. TableOK
  BY DEF LInv
<1>2. /\ inFlight' = inFlight \ {t}
      /\ UNCHANGED <<now, born, limit, phase, cursor, shown, repeated, first>>
  BY DEF Land, scan
<1>3. CASE UNCHANGED <<updatedAt, moved, back>>
  <2>1. Rows' = Rows
    BY <1>3 DEF Rows
  <2>2. TableOK'
    BY <1>1, <1>2, <1>3, <2>1 DEF TableOK
  <2> QED BY <1>2, <1>3, <2>1, <2>2, InsertLInv
<1>4. CASE /\ t.chat \in Rows
           /\ updatedAt' = [updatedAt EXCEPT ![t.chat] = t.time]
           /\ Note({t.chat}, t.time < updatedAt[t.chat])
  <2>1. PICK m : m = t.chat
    OBVIOUS
  <2>2. /\ m \in Rows /\ Rows' = Rows /\ updatedAt'[m] = t.time
        /\ \A c \in Rows \ {m} : updatedAt'[c] = updatedAt[c]
    BY <1>4, <2>1 DEF Rows
  <2>3. t.time \in Nat /\ updatedAt[m] \in Nat
    BY <1>1, <2>2 DEF TableOK
  <2>4. TableOK'
    BY <1>1, <1>2, <2>2, <2>3 DEF TableOK
  <2>5. CASE phase # "paging"
    BY <1>2, <1>4, <2>4, <2>5, OutsideLInv DEF Note, history
  <2>6. CASE phase = "paging" /\ t.time < updatedAt[m]
    <3>1. back' /\ moved' # {}
      BY <1>4, <2>1, <2>6 DEF Note
    <3> QED BY <1>2, <2>4, <2>6, <3>1, BackwardsLInv
  <2>7. CASE phase = "paging" /\ ~(t.time < updatedAt[m])
    <3>1. moved' = moved \cup {m} /\ (back' <=> back)
      BY <1>4, <2>1, <2>7 DEF Note
    <3>2. \A c \in Rows : updatedAt'[c] >= updatedAt[c]
      BY <1>1, <2>2, <2>3, <2>7 DEF TableOK
    <3>3. PICK gone : gone = {m}
      OBVIOUS
    <3> QED BY <1>2, <2>2, <2>4, <2>7, <3>1, <3>2, <3>3, KeepsLInv
  <2> QED BY <2>5, <2>6, <2>7
<1> QED BY <1>3, <1>4 DEF Land, history

LEMMA DeleteManyLInv ==
  ASSUME LInv, DeleteMany
  PROVE  LInv'
<1>1. TableOK
  BY DEF LInv
<1>2. /\ UNCHANGED <<now, born, inFlight, limit, phase, cursor, shown, repeated, first>>
      /\ Rows' = {} /\ Note(Rows, FALSE)
  BY DEF DeleteMany, scan, Rows
<1>3. TableOK'
  BY <1>1, <1>2, FS_EmptySet DEF TableOK
<1>4. CASE phase # "paging"
  BY <1>2, <1>3, <1>4, OutsideLInv DEF Note, history
<1>5. CASE phase = "paging"
  <2>1. moved' = moved \cup Rows /\ (back' <=> back)
    BY <1>2, <1>5 DEF Note
  <2>2. PICK gone : gone = Rows
    OBVIOUS
  <2> QED BY <1>2, <1>3, <1>5, <2>1, <2>2, KeepsLInv
<1> QED BY <1>4, <1>5

LEMMA LInvStep ==
  ASSUME LInv, [Next]_vars
  PROVE  LInv'
<1>1. TableOK
  BY DEF LInv
<1>2. ASSUME NEW c \in Chats, Touch(c)
      PROVE  LInv'
  <2>1. /\ UNCHANGED <<now, updatedAt, born, limit, phase, cursor, shown, repeated, first, moved, back>>
        /\ inFlight' = inFlight \cup {[chat |-> c, time |-> now]}
    BY <1>2 DEF Touch, scan, history
  <2>2. Rows' = Rows
    BY <2>1 DEF Rows
  <2>3. TableOK'
    BY <1>1, <2>1, <2>2 DEF TableOK
  <2> QED BY <2>1, <2>2, <2>3, InsertLInv
<1>3. ASSUME NEW n \in PageSizes, SetLimit(n)
      PROVE  LInv'
  <2>1. /\ UNCHANGED <<now, updatedAt, born, inFlight, phase, cursor, shown, repeated, first, moved, back>>
        /\ limit' = n
    BY <1>3 DEF SetLimit, scan, history
  <2>2. Rows' = Rows
    BY <2>1 DEF Rows
  <2>3. TableOK'
    BY <1>1, <2>1, <2>2, SizeAssumption DEF TableOK
  <2> QED BY <2>1, <2>2, <2>3, InsertLInv
<1>4. CASE Tick \/ UNCHANGED vars
  <2>1. /\ UNCHANGED <<updatedAt, born, inFlight, limit, phase, cursor, shown, repeated, first, moved, back>>
        /\ now' \in {now, now + 1}
    BY <1>4 DEF Tick, vars, table, scan, history
  <2>2. Rows' = Rows
    BY <2>1 DEF Rows
  <2>3. TableOK'
    BY <1>1, <2>1, <2>2 DEF TableOK
  <2> QED BY <2>1, <2>2, <2>3, InsertLInv
<1> QED BY <1>2, <1>3, <1>4, ReadLInv, CreateLInv, LandLInv, DeleteManyLInv DEF Next

LEMMA LInvCorrect == Spec => []LInv
<1>1. ASSUME Init
      PROVE  LInv
  <2>1. TableOK
    BY <1>1, FS_EmptySet, SizeAssumption DEF Init, Rows, TableOK
  <2> QED BY <1>1, <2>1 DEF Init, LInv, Standing, QuietAreAfter, ShownAreBefore,
            StableUnderInserts, QuietAreShown
<1>2. LInv /\ [Next]_vars => LInv'
  BY LInvStep
<1> QED BY <1>1, <1>2, PTL DEF Spec

\* "Cursor-based pagination - stable under inserts": as long as only inserts
\* interfere, no chat is shown twice and none that was there is left out.
THEOREM StableUnderInsertsCorrect == Spec => []StableUnderInserts
<1>1. LInv => StableUnderInserts
  BY DEF LInv
<1> QED BY <1>1, LInvCorrect, PTL

\* A chat that stayed where it was is shown, whatever else moved to the top.
THEOREM QuietAreShownCorrect == Spec => []QuietAreShown
<1>1. LInv => QuietAreShown
  BY DEF LInv
<1> QED BY <1>1, LInvCorrect, PTL

=============================================================================
