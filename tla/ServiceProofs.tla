---------------------------- MODULE ServiceProofs ----------------------------
(***************************************************************************)
(* Theorems about the services on top of the invocations: the SQL result,  *)
(* the PN counter, the Flake ID generator, the locks of maps and batches,  *)
(* and about the message reader and the first frame of a message, below    *)
(* the invocations.                                                        *)
(***************************************************************************)
EXTENDS SqlResult, PNCounter, FlakeIdGenerator, ProxyLocks, ProxyBatch, MessageReader, BuiltinCodecs,
        FiniteSetTheorems, SequenceTheorems, WellFoundedInduction, TLAPS

\* A set of natural numbers has a least element.
LEMMA LeastExists ==
  ASSUME NEW S \in SUBSET Nat, S # {}
  PROVE  \E i \in S : \A j \in S : i <= j
<1>1. PICK i \in S : \A j \in S : ~(<<j, i>> \in OpToRel(<, Nat))
  BY WFMin, NatLessThanWellFounded
<1>2. \A j \in S : ~(j < i)
  BY <1>1 DEF OpToRel
<1> QED
  BY <1>2

\* Induction over the natural numbers, with a set.
LEMMA SetInduction ==
  ASSUME NEW S, 0 \in S, \A n \in Nat : n \in S => n + 1 \in S
  PROVE  Nat \subseteq S
<1> DEFINE T == Nat \ S
<1>1. SUFFICES ASSUME T # {} PROVE FALSE
  OBVIOUS
<1>2. PICK i \in T : \A j \in T : i <= j
  <2>1. T \in SUBSET Nat
    OBVIOUS
  <2> HIDE DEF T
  <2> QED
    BY <1>1, <2>1, LeastExists
<1>3. i \in Nat /\ i # 0 /\ i - 1 \in Nat /\ ~(i <= i - 1)
  OBVIOUS
<1>4. i - 1 \in S
  BY <1>2, <1>3
<1>5. i \in S
  BY <1>3, <1>4
<1> QED
  BY <1>5

---------------------------------------------------------------------------
(***************************************************************************)
(* The SQL result.  A query is held by the member only while it has pages  *)
(* left, the page of the iteration is the one the member gave last unless  *)
(* one is being fetched or a fetch has failed, and a closed result has     *)
(* told the member or has seen it finish.                                  *)
(***************************************************************************)
SqlTyped ==
    /\ query \in Queries
    /\ cursor \in Nat /\ closing \in Nat /\ index \in Nat
    /\ queryState \in {"none", "open", "closed"}
    /\ fetching \in {"no", "asked", "answered"}

Begun ==
    /\ iteration = "new" => queryState = "none"
    /\ queryState = "none" => iteration # "running" /\ fetching = "no"
    /\ queryState # "none" => /\ cursor \in 1..Len(query.pages)
                              /\ queryHeld => cursor < Len(query.pages)

Shown == queryState # "none" /\ fetching = "no" /\ ~resultErr => page = Page(cursor)

Told == queryState = "closed" => closing > 0 \/ ~queryHeld \/ Truncated

SqlInv == SqlTyped /\ Begun /\ Shown /\ Told

LEMMA SqlInitInv == SqlInit => SqlInv
  BY DEF SqlInit, SqlInv, SqlTyped, Begun, Shown, Told

\* What a page without rows, or without columns, says about the query.
LEMMA PageFacts ==
  ASSUME SqlTyped, NEW k \in 1..Len(query.pages)
  PROVE  /\ query.pages \in Seq(Nat \cup {NoColumns})
         /\ query.pages[k] \in Nat \cup {NoColumns}
         /\ ~Page(k).columns => query.pages[k] = NoColumns
         /\ Page(k).rows = <<>> => query.pages[k] \in {0, NoColumns}
         /\ Page(k).last <=> k = Len(query.pages)
<1>1. query.pages \in Seq(Nat \cup {NoColumns})
  BY QueriesAssumption DEF SqlTyped
<1>2. query.pages[k] \in Nat \cup {NoColumns}
  BY <1>1
<1>3. Page(k).rows = <<>> => query.pages[k] \in {0, NoColumns}
  <2>1. SUFFICES ASSUME Page(k).rows = <<>>, query.pages[k] \in Nat, query.pages[k] # 0
                 PROVE  FALSE
    BY <1>2
  <2>2. 1 \in DOMAIN PageRows(k)
    BY <2>1 DEF PageRows, NoColumns
  <2>3. PageRows(k) = <<>>
    BY <2>1 DEF Page
  <2> QED
    BY <2>2, <2>3
<1> QED
  BY <1>1, <1>2, <1>3 DEF Page

LEMMA SqlStepInv == SqlInv /\ [SqlNext]_sqlVars => SqlInv'
<1> SUFFICES ASSUME SqlInv, [SqlNext]_sqlVars PROVE SqlInv'
  OBVIOUS
<1> USE DEF SqlInv
<1>1. CASE UNCHANGED sqlVars
  BY <1>1 DEF sqlVars, SqlTyped, Begun, Shown, Told, Truncated, Page, PageRows
<1>2. ASSUME query' = query PROVE \A k : Page(k)' = Page(k)
  BY <1>2 DEF Page, PageRows
<1>3. ASSUME query' = query, cursor' = cursor \/ cursor' = cursor + 1, Truncated PROVE Truncated'
  BY <1>3 DEF Truncated, SqlTyped
<1>4. CASE ExecuteUpdate
  BY <1>4, <1>2, <1>3 DEF ExecuteUpdate, SqlTyped, Begun, Shown, Told
<1>5. CASE ExecuteQuery
  <2>1. query.pages \in Seq(Nat \cup {NoColumns}) /\ query.pages # <<>>
    BY <1>5, QueriesAssumption DEF ExecuteQuery, SqlTyped
  <2>2. Len(query.pages) \in Nat /\ Len(query.pages) >= 1
    BY <2>1
  <2>3. queryHeld' => Len(query.pages) > 1
    BY <1>5, Zenon DEF ExecuteQuery
  <2>4. /\ query' = query /\ cursor' = 1 /\ queryState' = "open" /\ iteration' = "running"
        /\ UNCHANGED <<index, fetching, closing>>
    BY <1>5 DEF ExecuteQuery
  <2>5. SqlTyped' /\ Begun' /\ Told'
    BY <2>2, <2>3, <2>4 DEF SqlTyped, Begun, Told
  <2>6. Shown'
    BY <1>5, <1>2 DEF ExecuteQuery, Shown
  <2> QED
    BY <2>5, <2>6
<1>6. CASE ExecuteFails
  BY <1>6, <1>2, <1>3 DEF ExecuteFails, SqlTyped, Begun, Shown, Told, Truncated
<1>7. CASE Close
  BY <1>7, <1>2, <1>3 DEF Close, closeQuery, CloseState, SqlTyped, Begun, Shown, Told
<1>8. CASE ContextEnds
  BY <1>8, <1>2, <1>3 DEF ContextEnds, closeQuery, CloseState, SqlTyped, Begun, Shown, Told
<1>9. CASE NextRow
  BY <1>9, <1>2, <1>3 DEF NextRow, SqlTyped, Begun, Shown, Told
<1>10. CASE NextEOF
  <2>1. cursor \in 1..Len(query.pages) /\ page = Page(cursor) /\ query.pages \in Seq(Nat \cup {NoColumns})
    BY <1>10, QueriesAssumption DEF NextEOF, SqlTyped, Begun, Shown
  <2>2. ~page.columns \/ page.last
    BY <1>10 DEF NextEOF
  <2>3. ~queryHeld \/ Truncated
    <3>1. /\ page.last <=> cursor = Len(query.pages)
          /\ ~page.columns => query.pages[cursor] = NoColumns
      <4> HIDE DEF Page
      <4> QED
        BY <2>1, PageFacts
    <3>2. CASE page.last
      BY <1>10, <2>1, <3>1, <3>2 DEF Begun, NextEOF
    <3>3. CASE ~page.columns
      BY <1>10, <2>1, <3>1, <3>3 DEF Begun, Truncated, SqlTyped, NextEOF
    <3> QED
      BY <2>2, <3>2, <3>3
  <2> QED
    BY <1>10, <2>3, <1>2, <1>3 DEF NextEOF, CloseState, Ends, SqlTyped, Begun, Shown, Told
<1>11. CASE NextPage
  BY <1>11, <1>2, <1>3 DEF NextPage, SqlTyped, Begun, Shown, Told
<1>12. CASE Fetched
  <2>1. cursor \in 1..Len(query.pages) /\ page' = Page(cursor) /\ query.pages \in Seq(Nat \cup {NoColumns})
    BY <1>12, QueriesAssumption DEF Fetched, SqlTyped, Begun
  <2>2. page'.rows = <<>> /\ page'.columns => ~queryHeld \/ Truncated
    <3>1. page'.rows = <<>> => query.pages[cursor] \in {0, NoColumns}
      BY <2>1, PageFacts
    <3> QED
      BY <1>12, <2>1, <3>1 DEF Begun, Truncated, SqlTyped, Fetched
  <2> QED
    BY <1>12, <2>1, <2>2, <1>2, <1>3 DEF Fetched, pageStarts, CloseState, Ends, SqlTyped, Begun, Shown, Told
<1>13. CASE FetchFails
  BY <1>13, <1>2, <1>3 DEF FetchFails, SqlTyped, Begun, Shown, Told
<1>14. CASE NextError
  BY <1>14, <1>2, <1>3 DEF NextError, Ends, SqlTyped, Begun, Shown, Told
<1>15. CASE MemberFetches
  <2>1. query.pages \in Seq(Nat \cup {NoColumns})
    BY QueriesAssumption DEF SqlTyped
  <2>2. Len(query.pages) \in Nat
    BY <2>1
  <2>3. queryHeld' => cursor' < Len(query.pages)
    BY <1>15, Zenon DEF MemberFetches
  <2>4. /\ query' = query /\ cursor' = cursor + 1 /\ fetching' = "answered"
        /\ fetching = "asked" /\ queryHeld
        /\ UNCHANGED <<index, closing, queryState, iteration>>
    BY <1>15 DEF MemberFetches
  <2>5. SqlTyped' /\ Begun'
    BY <2>2, <2>3, <2>4 DEF SqlTyped, Begun
  <2>6. Shown' /\ Told'
    BY <1>15, <1>3 DEF MemberFetches, SqlTyped, Begun, Shown, Told
  <2> QED
    BY <2>5, <2>6
<1>16. CASE MemberCloses
  BY <1>16, <1>2, <1>3 DEF MemberCloses, SqlTyped, Begun, Shown, Told
<1>17. CASE ConnectionLost
  BY <1>17, <1>2, <1>3 DEF ConnectionLost, SqlTyped, Begun, Shown, Told
<1> QED
  BY <1>1, <1>4, <1>5, <1>6, <1>7, <1>8, <1>9, <1>10, <1>11, <1>12, <1>13, <1>14, <1>15, <1>16, <1>17
  DEF SqlNext

(***************************************************************************)
(* Whatever the pages and however closing, cancelling and fetching         *)
(* overlap, a closed result that has no close request on its way leaves no *)
(* query behind on the member, unless a page without rows ended it.        *)
(***************************************************************************)
THEOREM ClosedIsReleased == SqlSpec => []QueryIsReleased
<1>1. SqlInv => QueryIsReleased
  BY DEF SqlInv, SqlTyped, Told, QueryIsReleased
<1> QED
  BY <1>1, SqlInitInv, SqlStepInv, PTL DEF SqlSpec

(***************************************************************************)
(* The rows in order.  j[k] are the rows of the first k pages.             *)
(***************************************************************************)
\* A row by its page and its place in it.
Row == Nat \X Nat

\* j[k] is the first k of the sequences of s, joined.
Joins(j, s, n) == j[0] = <<>> /\ \A i \in 1..n : j[i] = j[i - 1] \o s[i]

\* The function by which FlattenSeq is defined.
Flattens(f, s, n) == f = [i \in 1..n |-> IF i = 1 THEN s[i] ELSE f[i - 1] \o s[i]]

\* There is such a function for every sequence.
LEMMA FlattenExists ==
  ASSUME NEW s, NEW n \in Nat
  PROVE  \E f : Flattens(f, s, n)
<1> DEFINE S == {m \in Nat : \E f : Flattens(f, s, m)}
<1>1. 0 \in S
  <2>1. Flattens([i \in 1..0 |-> <<>>], s, 0)
    BY DEF Flattens
  <2> QED
    BY <2>1
<1>2. ASSUME NEW m \in Nat, m \in S PROVE m + 1 \in S
  <2>1. PICK f : Flattens(f, s, m)
    BY <1>2
  <2> DEFINE g == [i \in 1..(m + 1) |-> IF i = 1 THEN s[i] ELSE IF i = m + 1 THEN f[m] \o s[i] ELSE f[i]]
  <2>2. ASSUME NEW i \in 1..(m + 1) PROVE g[i] = IF i = 1 THEN s[i] ELSE g[i - 1] \o s[i]
    <3>1. CASE i = 1
      BY <3>1
    <3>2. CASE i # 1 /\ i = m + 1
      <4>1. m \in 1..(m + 1) /\ m # m + 1 /\ i - 1 = m /\ m \in 1..m
        BY <3>2
      <4>2. g[m] = f[m]
        BY <2>1, <4>1 DEF Flattens
      <4> QED
        BY <3>2, <4>1, <4>2
    <3>3. CASE i # 1 /\ i # m + 1
      <4>1. i \in 1..m /\ i - 1 \in 1..m /\ i - 1 \in 1..(m + 1) /\ i - 1 # m + 1
        BY <3>3
      <4>2. f[i] = f[i - 1] \o s[i] /\ (i - 1 = 1 => f[i - 1] = s[i - 1])
        BY <2>1, <3>3, <4>1 DEF Flattens
      <4>3. g[i] = f[i] /\ g[i - 1] = f[i - 1]
        BY <3>3, <4>1, <4>2
      <4> QED
        BY <3>3, <4>2, <4>3
    <3> QED
      BY <3>1, <3>2, <3>3
  <2>3. g = [i \in 1..(m + 1) |-> g[i]]
    OBVIOUS
  <2>4. Flattens(g, s, m + 1)
    <3> HIDE DEF g
    <3> QED
      BY <2>2, <2>3 DEF Flattens
  <2> QED
    BY <2>4
<1> HIDE DEF S
<1>3. Nat \subseteq S
  BY <1>1, <1>2, SetInduction
<1> QED
  BY <1>3 DEF S

\* FlattenSeq joins its sequences one after the other.
LEMMA FlattenSteps ==
  ASSUME NEW X, NEW s \in Seq(Seq(X))
  PROVE  \E j : Joins(j, s, Len(s)) /\ FlattenSeq(s) = j[Len(s)]
<1> DEFINE n == Len(s)
           Is(g) == g = [i \in 1..n |-> IF i = 1 THEN s[i] ELSE g[i - 1] \o s[i]]
           f == CHOOSE g : Is(g)
           j == [i \in 0..n |-> IF i = 0 THEN <<>> ELSE f[i]]
<1>1. n \in Nat /\ DOMAIN s = 1..n /\ \A i \in 1..n : s[i] \in Seq(X)
  OBVIOUS
<1>2. FlattenSeq(s) = IF n = 0 THEN s ELSE f[n]
  BY DEF FlattenSeq
<1>3. \A g : Is(g) <=> Flattens(g, s, n)
  BY DEF Flattens
<1>4. \E g : Is(g)
  <2> HIDE DEF n
  <2> QED
    BY <1>1, <1>3, FlattenExists
<1>5. Is(f)
  BY <1>4
<1>6. n = 0 => s = <<>>
  OBVIOUS
<1> HIDE DEF n, f
<1>7. \A i \in 1..n : f[i] = IF i = 1 THEN s[i] ELSE f[i - 1] \o s[i]
  BY <1>5
<1>8. ASSUME NEW i \in 1..n PROVE j[i] = j[i - 1] \o s[i]
  <2>1. CASE i = 1
    <3>1. j[i] = s[i] /\ j[i - 1] = <<>>
      BY <1>1, <1>7, <2>1
    <3>2. s[i] \in Seq(X)
      BY <1>1
    <3>3. <<>> \o s[i] = s[i]
      BY <3>2
    <3> QED
      BY <3>1, <3>3
  <2>2. CASE i # 1
    <3>1. i \in 0..n /\ i - 1 \in 0..n /\ i # 0 /\ i - 1 # 0
      BY <1>1, <2>2
    <3>2. j[i] = f[i] /\ j[i - 1] = f[i - 1]
      BY <3>1
    <3>3. f[i] = f[i - 1] \o s[i]
      BY <1>7, <2>2
    <3> QED
      BY <3>2, <3>3
  <2> QED
    BY <2>1, <2>2
<1>9. j[0] = <<>> /\ j[n] = FlattenSeq(s)
  BY <1>1, <1>2, <1>6
<1> QED
  BY <1>8, <1>9 DEF Joins, n

\* s is the beginning of t.
Starts(s, t) == Len(s) <= Len(t) /\ \A x \in 1..Len(s) : s[x] = t[x]

\* What a joined sequence consists of.
LEMMA ConcatFacts ==
  ASSUME NEW X, NEW a \in Seq(X), NEW b \in Seq(X)
  PROVE  /\ a \o b \in Seq(X) /\ Len(a \o b) = Len(a) + Len(b) /\ Len(a) \in Nat /\ Len(b) \in Nat
         /\ \A x \in 1..Len(a) : (a \o b)[x] = a[x]
         /\ \A x \in 1..Len(b) : (a \o b)[Len(a) + x] = b[x]
  OBVIOUS

\* The rows of k pages begin with those of fewer pages.
LEMMA JoinFacts ==
  ASSUME NEW X, NEW n \in Nat, NEW s, \A i \in 1..n : s[i] \in Seq(X), NEW j, Joins(j, s, n), NEW k \in 0..n
  PROVE  j[k] \in Seq(X) /\ \A i \in 0..k : Starts(j[i], j[k])
<1> DEFINE S == {m \in Nat : m <= n => j[m] \in Seq(X) /\ \A i \in 0..m : j[i] \in Seq(X) /\ Starts(j[i], j[m])}
<1>1. 0 \in S
  <2>1. j[0] = <<>>
    BY DEF Joins
  <2>2. \A i \in 0..0 : i = 0
    OBVIOUS
  <2>3. Starts(<<>>, <<>>) /\ <<>> \in Seq(X)
    BY DEF Starts
  <2> QED
    BY <2>1, <2>2, <2>3
<1>2. ASSUME NEW m \in Nat, m \in S PROVE m + 1 \in S
  <2> SUFFICES ASSUME m + 1 <= n PROVE j[m + 1] \in Seq(X) /\ \A i \in 0..(m + 1) : j[i] \in Seq(X) /\ Starts(j[i], j[m + 1])
    OBVIOUS
  <2>1. m <= n /\ m + 1 \in 1..n /\ (m + 1) - 1 = m
    OBVIOUS
  <2>2. j[m] \in Seq(X) /\ \A i \in 0..m : j[i] \in Seq(X) /\ Starts(j[i], j[m])
    BY <1>2, <2>1
  <2>3. j[m + 1] = j[m] \o s[m + 1] /\ s[m + 1] \in Seq(X)
    BY <2>1 DEF Joins
  <2> DEFINE a == j[m]
             b == s[m + 1]
             c == j[m + 1]
  <2>4. /\ c \in Seq(X) /\ Len(c) = Len(a) + Len(b) /\ Len(a) \in Nat /\ Len(b) \in Nat
        /\ \A x \in 1..Len(a) : c[x] = a[x]
    <3>1. a \in Seq(X) /\ b \in Seq(X) /\ c = a \o b
      BY <2>2, <2>3
    <3> HIDE DEF a, b, c
    <3> QED
      BY <3>1, ConcatFacts
  <2>5. ASSUME NEW i \in 0..m PROVE j[i] \in Seq(X) /\ Starts(j[i], j[m + 1])
    <3>1. Starts(j[i], a) /\ j[i] \in Seq(X) /\ Len(j[i]) \in Nat
      BY <2>2
    <3>2. Len(j[i]) <= Len(a) /\ \A x \in 1..Len(j[i]) : j[i][x] = a[x]
      BY <3>1 DEF Starts
    <3> HIDE DEF a, b, c
    <3>3. Len(j[i]) <= Len(c)
      BY <2>4, <3>1, <3>2
    <3>4. ASSUME NEW x \in 1..Len(j[i]) PROVE j[i][x] = c[x]
      <4>1. x \in 1..Len(a)
        BY <2>4, <3>1, <3>2
      <4> QED
        BY <2>4, <3>2, <4>1
    <3> QED
      BY <3>1, <3>3, <3>4 DEF Starts, c
  <2>6. Starts(j[m + 1], j[m + 1])
    BY <2>4 DEF Starts
  <2>7. \A i \in 0..(m + 1) : i \in 0..m \/ i = m + 1
    OBVIOUS
  <2> QED
    BY <2>4, <2>5, <2>6, <2>7
<1> HIDE DEF S
<1>3. Nat \subseteq S
  BY <1>1, <1>2, SetInduction
<1>4. k \in Nat /\ k <= n
  OBVIOUS
<1> QED
  BY <1>3, <1>4 DEF S

\* The rows of the pages.
PagesOf == [k \in DOMAIN query.pages |-> PageRows(k)]

\* The result of the pages up to the cursor, and within the page up to the index.
Reading(j) ==
    /\ queryState # "none" =>
        /\ Starts(got, j[cursor])
        /\ fetching = "no" /\ ~resultErr => /\ Len(got) = Len(j[cursor - 1]) + index
                                            /\ index <= Len(PageRows(cursor))
        /\ fetching = "asked" => Len(got) = Len(j[cursor])
        /\ fetching = "answered" => Len(got) = Len(j[cursor - 1])
    /\ iteration = "eof" /\ ~query.update /\ ~Truncated =>
        cursor = Len(query.pages) /\ Len(got) = Len(j[cursor])

\* How far the iteration is.
Iterating ==
    /\ got \in Seq(Row)
    /\ queryState = "none" => got = <<>> /\ index = 0
    /\ iteration # "running" => fetching = "no"
    /\ resultErr => fetching = "no"
    /\ iteration = "eof" /\ ~query.update => queryState # "none"
    /\ \A j : Joins(j, PagesOf, Len(query.pages)) => Reading(j)

\* What is known of the pages of a query.
LEMMA PagesFacts ==
  ASSUME SqlTyped
  PROVE  /\ Len(query.pages) \in Nat /\ DOMAIN query.pages = 1..Len(query.pages)
         /\ PagesOf \in Seq(Seq(Row)) /\ Len(PagesOf) = Len(query.pages)
         /\ \A k \in 1..Len(query.pages) : PagesOf[k] = PageRows(k) /\ PageRows(k) \in Seq(Row)
         /\ \A k \in 1..Len(query.pages) : Len(PageRows(k)) = IF query.pages[k] = NoColumns THEN 0 ELSE query.pages[k]
<1>1. query.pages \in Seq(Nat \cup {NoColumns})
  BY QueriesAssumption DEF SqlTyped
<1>2. Len(query.pages) \in Nat /\ DOMAIN query.pages = 1..Len(query.pages)
  BY <1>1
<1>3. ASSUME NEW k \in 1..Len(query.pages)
      PROVE  /\ PageRows(k) \in Seq(Row)
             /\ Len(PageRows(k)) = IF query.pages[k] = NoColumns THEN 0 ELSE query.pages[k]
  <2> DEFINE n == IF query.pages[k] = NoColumns THEN 0 ELSE query.pages[k]
  <2>1. n \in Nat
    BY <1>1
  <2>2. PageRows(k) = [i \in 1..n |-> <<k, i>>]
    BY DEF PageRows
  <2>3. \A i \in 1..n : <<k, i>> \in Row
    BY <1>2, <2>1 DEF Row
  <2> HIDE DEF n
  <2>4. PageRows(k) \in Seq(Row) /\ Len(PageRows(k)) = n
    BY <2>1, <2>2, <2>3
  <2> QED
    BY <2>4 DEF n
<1>4. PagesOf = [k \in 1..Len(query.pages) |-> PageRows(k)]
  BY <1>2 DEF PagesOf
<1>5. PagesOf \in Seq(Seq(Row)) /\ Len(PagesOf) = Len(query.pages)
  BY <1>2, <1>3, <1>4
<1> QED
  BY <1>2, <1>3, <1>4, <1>5

\* What the rows of the pages up to the cursor are made of.
LEMMA CursorFacts ==
  ASSUME SqlTyped, NEW c \in 1..Len(query.pages), NEW j, Joins(j, PagesOf, Len(query.pages))
  PROVE  /\ j[c] \in Seq(Row) /\ j[c - 1] \in Seq(Row) /\ (c = 1 => j[c - 1] = <<>>)
         /\ Len(j[c]) = Len(j[c - 1]) + Len(PageRows(c))
         /\ \A x \in 1..Len(j[c - 1]) : j[c][x] = j[c - 1][x]
         /\ \A x \in 1..Len(PageRows(c)) : j[c][Len(j[c - 1]) + x] = PageRows(c)[x]
<1>1. c - 1 \in 0..Len(query.pages) /\ c \in 0..Len(query.pages) /\ (c = 1 => c - 1 = 0)
  BY PagesFacts
<1>2. \A i \in 1..Len(query.pages) : PagesOf[i] \in Seq(Row)
  BY PagesFacts
<1>3. j[c] \in Seq(Row) /\ j[c - 1] \in Seq(Row)
  BY <1>1, <1>2, JoinFacts, PagesFacts
<1>4. j[c] = j[c - 1] \o PageRows(c) /\ j[0] = <<>> /\ PageRows(c) \in Seq(Row)
  BY PagesFacts DEF Joins
<1> QED
  BY <1>1, <1>3, <1>4

\* Nothing is read at first.
LEMMA InitIterating == SqlInit => Iterating
  BY DEF SqlInit, Iterating, Reading

\* The pages do not change.
LEMMA JoinsStay ==
  ASSUME query' = query
  PROVE  /\ \A k : PageRows(k)' = PageRows(k)
         /\ \A j : Joins(j, PagesOf, Len(query.pages))' <=> Joins(j, PagesOf, Len(query.pages))
<1>1. \A k : PageRows(k)' = PageRows(k)
  BY DEF PageRows
<1>2. PagesOf' = PagesOf
  BY <1>1 DEF PagesOf
<1> QED
  BY <1>1, <1>2 DEF Joins

\* Steps that leave the iteration where it is.
LEMMA IterationStays ==
  ASSUME Iterating,
         UNCHANGED <<query, cursor, got, index, fetching, resultErr>>,
         iteration' = iteration \/ (iteration' # "eof" /\ fetching = "no"),
         queryState' = queryState \/ (queryState # "none" /\ queryState' # "none")
  PROVE  Iterating'
<1>1. Truncated' = Truncated
  BY DEF Truncated
<1>2. ASSUME NEW j, Joins(j, PagesOf, Len(query.pages))' PROVE Reading(j)'
  <2>1. Reading(j)
    BY <1>2, JoinsStay DEF Iterating
  <2> QED
    BY <1>1, <2>1, JoinsStay DEF Reading
<1> QED
  BY <1>2 DEF Iterating

\* Every step preserves Iterating: only NextRow reads, and only a page that was
\* read to its end is followed by another one.
LEMMA StepIterating == SqlInv /\ Iterating /\ [SqlNext]_sqlVars => Iterating'
<1> SUFFICES ASSUME SqlInv, Iterating, [SqlNext]_sqlVars PROVE Iterating'
  OBVIOUS
<1>1. CASE UNCHANGED sqlVars
  BY <1>1, IterationStays DEF sqlVars
<1>2. CASE ExecuteUpdate
  <2>1. Iterating
    OBVIOUS
  <2>2. ASSUME NEW j, Joins(j, PagesOf, Len(query.pages))' PROVE Reading(j)'
    <3>1. Reading(j)
      BY <1>2, <2>2, JoinsStay DEF Iterating, ExecuteUpdate
    <3> QED
      BY <1>2, <3>1, JoinsStay DEF Reading, ExecuteUpdate
  <2> QED
    BY <1>2, <2>2 DEF Iterating, ExecuteUpdate
<1>3. CASE ExecuteFails
  BY <1>3, IterationStays DEF ExecuteFails, Iterating
<1>4. CASE Close \/ ContextEnds
  BY <1>4, IterationStays DEF Close, ContextEnds, closeQuery, CloseState
<1>5. CASE NextError
  BY <1>5, IterationStays DEF NextError, Ends, Iterating
<1>6. CASE MemberCloses \/ ConnectionLost
  BY <1>6, IterationStays DEF MemberCloses, ConnectionLost
<1>7. SqlTyped
  BY DEF SqlInv
<1> DEFINE n == Len(query.pages)
<1>8. CASE ExecuteQuery
  <2>1. /\ query' = query /\ cursor' = 1 /\ got' = got /\ index' = index /\ fetching' = fetching
        /\ resultErr' = resultErr /\ iteration' = "running" /\ queryState' = "open" /\ queryState = "none"
    BY <1>8 DEF ExecuteQuery, SqlInv, Begun
  <2>2. got = <<>> /\ index = 0 /\ fetching = "no"
    BY <2>1 DEF Iterating, SqlInv, Begun
  <2>3. 1 \in 1..n
    <3>1. query.pages \in Seq(Nat \cup {NoColumns}) /\ query.pages # <<>>
      BY <1>7, <1>8, QueriesAssumption DEF SqlTyped, ExecuteQuery
    <3> QED
      BY <3>1
  <2>4. ASSUME NEW j, Joins(j, PagesOf, Len(query.pages))' PROVE Reading(j)'
    <3>1. Joins(j, PagesOf, Len(query.pages))
      BY <2>1, <2>4, JoinsStay
    <3>2. j[1] \in Seq(Row) /\ j[1 - 1] = <<>> /\ PageRows(1) \in Seq(Row)
      BY <1>7, <2>3, <3>1, CursorFacts, PagesFacts
    <3>3. Starts(<<>>, j[1]) /\ Len(j[1 - 1]) = 0 /\ 0 <= Len(PageRows(1))
      BY <3>2 DEF Starts
    <3> QED
      BY <2>1, <2>2, <3>3, JoinsStay DEF Reading
  <2> QED
    BY <2>1, <2>2, <2>4 DEF Iterating
\* While the query is read, its cursor is at a page.
<1>9. ASSUME queryState # "none", NEW j, Joins(j, PagesOf, n)
      PROVE  /\ cursor \in 1..n /\ n \in Nat /\ query.pages[cursor] \in Nat \cup {NoColumns}
             /\ Len(j[cursor]) \in Nat /\ Len(j[cursor - 1]) \in Nat /\ Len(PageRows(cursor)) \in Nat
             /\ Len(j[cursor]) = Len(j[cursor - 1]) + Len(PageRows(cursor))
             /\ Reading(j) /\ Len(got) \in Nat /\ index \in Nat
             /\ PageRows(cursor) \in Seq(Row)
  <2>1. cursor \in 1..n
    BY <1>9 DEF SqlInv, Begun
  <2>2. n \in Nat /\ PageRows(cursor) \in Seq(Row) /\ query.pages[cursor] \in Nat \cup {NoColumns}
    BY <1>7, <2>1, PagesFacts, PageFacts
  <2>3. /\ j[cursor] \in Seq(Row) /\ j[cursor - 1] \in Seq(Row)
        /\ Len(j[cursor]) = Len(j[cursor - 1]) + Len(PageRows(cursor))
    BY <1>7, <1>9, <2>1, CursorFacts
  <2>4. Reading(j) /\ got \in Seq(Row)
    BY <1>9 DEF Iterating
  <2>5. index \in Nat
    BY <1>7 DEF SqlTyped
  <2> HIDE DEF n
  <2> QED
    BY <2>1, <2>2, <2>3, <2>4, <2>5
<1>10. ASSUME iteration = "running" PROVE queryState # "none"
  BY <1>10 DEF SqlInv, Begun
<1>11. ASSUME queryState # "none", fetching = "no", ~resultErr PROVE page = Page(cursor)
  BY <1>11 DEF SqlInv, Shown
<1>12. CASE NextRow
  <2>1. /\ UNCHANGED <<query, cursor, fetching, resultErr, iteration, queryState>>
        /\ iteration = "running" /\ fetching = "no" /\ ~resultErr
        /\ index < Len(PageRows(cursor)) /\ index' = index + 1
        /\ got' = Append(got, PageRows(cursor)[index + 1])
    BY <1>10, <1>11, <1>12 DEF NextRow, Page
  <2>2. cursor \in 1..n /\ PageRows(cursor) \in Seq(Row) /\ index \in Nat
    BY <1>7, <1>10, <2>1, PagesFacts DEF SqlInv, Begun, SqlTyped
  <2>3. index + 1 \in 1..Len(PageRows(cursor)) /\ PageRows(cursor)[index + 1] \in Row
    BY <2>1, <2>2
  <2>4. /\ got' \in Seq(Row) /\ Len(got') = Len(got) + 1 /\ Len(got) \in Nat
        /\ \A x \in 1..Len(got) : got'[x] = got[x]
        /\ got'[Len(got) + 1] = PageRows(cursor)[index + 1]
    BY <2>1, <2>3 DEF Iterating
  <2>5. ASSUME NEW j, Joins(j, PagesOf, Len(query.pages))' PROVE Reading(j)'
    <3>1. Joins(j, PagesOf, n) /\ \A k : PageRows(k)' = PageRows(k)
      BY <2>1, <2>5, JoinsStay
    <3>2. /\ Len(j[cursor]) \in Nat /\ Len(j[cursor - 1]) \in Nat /\ Len(PageRows(cursor)) \in Nat
          /\ Len(j[cursor]) = Len(j[cursor - 1]) + Len(PageRows(cursor)) /\ Reading(j)
      BY <1>9, <1>10, <2>1, <3>1
    <3>3. Starts(got, j[cursor]) /\ Len(got) = Len(j[cursor - 1]) + index
      BY <1>10, <2>1, <3>2 DEF Reading
    <3>4. j[cursor][Len(j[cursor - 1]) + (index + 1)] = PageRows(cursor)[index + 1]
      BY <1>7, <2>2, <2>3, <3>1, CursorFacts
    <3>5. Len(got) + 1 = Len(j[cursor - 1]) + (index + 1) /\ Len(got) + 1 <= Len(j[cursor])
      <4> DEFINE a == Len(j[cursor - 1])
                 b == Len(PageRows(cursor))
                 c == Len(j[cursor])
                 g == Len(got)
      <4>1. a \in Nat /\ b \in Nat /\ c = a + b /\ g = a + index /\ index < b /\ index \in Nat
        BY <2>1, <2>2, <3>2, <3>3
      <4> HIDE DEF a, b, c, g
      <4>2. g + 1 = a + (index + 1) /\ g + 1 <= c
        BY <4>1
      <4> QED
        BY <4>2 DEF a, b, c, g
    <3>6. Starts(got', j[cursor])
      <4>1. \A x \in 1..Len(got') : x \in 1..Len(got) \/ x = Len(got) + 1
        BY <2>4
      <4> QED
        BY <2>4, <3>3, <3>4, <3>5, <4>1 DEF Starts
    <3>7. Len(got') = Len(j[cursor - 1]) + index' /\ index' <= Len(PageRows(cursor))
      <4>1. index' = index + 1 /\ index + 1 <= Len(PageRows(cursor))
        BY <2>1, <2>2, <3>2
      <4> QED
        BY <2>4, <3>5, <4>1
    <3> QED
      BY <2>1, <3>1, <3>6, <3>7 DEF Reading
  <2>6. queryState' # "none"
    BY <1>10, <2>1
  <2> QED
    BY <2>1, <2>4, <2>5, <2>6 DEF Iterating
<1>13. CASE NextEOF
  <2>1. /\ UNCHANGED <<query, cursor, fetching, resultErr, got, index>>
        /\ iteration = "running" /\ fetching = "no" /\ ~resultErr /\ iteration' = "eof" /\ queryState' = "closed"
        /\ query.pages[cursor] = NoColumns \/ (index >= Len(PageRows(cursor)) /\ cursor = n)
    <3>1. /\ UNCHANGED <<query, cursor, fetching, resultErr, got, index>>
          /\ iteration = "running" /\ fetching = "no" /\ ~resultErr /\ iteration' = "eof" /\ queryState' = "closed"
          /\ ~page.columns \/ (index >= Len(page.rows) /\ page.last)
      BY <1>13 DEF NextEOF, CloseState, Ends
    <3>2. page = Page(cursor) /\ cursor \in 1..n
      BY <1>10, <1>11, <3>1 DEF SqlInv, Begun
    <3>3. /\ ~page.columns => query.pages[cursor] = NoColumns
          /\ page.last <=> cursor = n
      BY <1>7, <3>2, PageFacts
    <3>4. page.rows = PageRows(cursor)
      BY <3>2 DEF Page
    <3> QED
      BY <3>1, <3>3, <3>4
  <2>2. ASSUME NEW j, Joins(j, PagesOf, Len(query.pages))' PROVE Reading(j)'
    <3>1. Joins(j, PagesOf, n) /\ \A k : PageRows(k)' = PageRows(k)
      BY <2>1, <2>2, JoinsStay
    <3>2. /\ Len(j[cursor]) \in Nat /\ Len(j[cursor - 1]) \in Nat /\ Len(PageRows(cursor)) \in Nat
          /\ Len(j[cursor]) = Len(j[cursor - 1]) + Len(PageRows(cursor)) /\ Reading(j)
          /\ cursor \in 1..n /\ n \in Nat /\ index \in Nat
      BY <1>9, <1>10, <2>1, <3>1
    <3>3. /\ Starts(got, j[cursor]) /\ Len(got) = Len(j[cursor - 1]) + index
          /\ index <= Len(PageRows(cursor))
      BY <1>10, <2>1, <3>2 DEF Reading
    <3>4. ASSUME ~Truncated' PROVE cursor = n /\ Len(got) = Len(j[cursor])
      <4>1. CASE query.pages[cursor] = NoColumns
        <5>1. cursor = n
          BY <2>1, <3>2, <3>4, <4>1 DEF Truncated
        <5>2. Len(PageRows(cursor)) = 0
          BY <1>7, <3>2, <4>1, PagesFacts
        <5> QED
          BY <3>2, <3>3, <5>1, <5>2
      <4>2. CASE index >= Len(PageRows(cursor)) /\ cursor = n
        <5>1. index = Len(PageRows(cursor))
          BY <3>2, <3>3, <4>2
        <5> QED
          BY <3>2, <3>3, <4>2, <5>1
      <4> QED
        BY <2>1, <4>1, <4>2
    <3> QED
      BY <2>1, <3>1, <3>3, <3>4 DEF Reading
  <2> QED
    BY <2>1, <2>2 DEF Iterating
<1>14. CASE NextPage
  <2>1. /\ UNCHANGED <<query, cursor, resultErr, got, index, iteration, queryState>>
        /\ iteration = "running" /\ fetching = "no" /\ ~resultErr /\ fetching' = "asked"
        /\ index >= Len(PageRows(cursor))
    BY <1>10, <1>11, <1>14 DEF NextPage, Page
  <2>2. ASSUME NEW j, Joins(j, PagesOf, Len(query.pages))' PROVE Reading(j)'
    <3>1. Joins(j, PagesOf, n) /\ \A k : PageRows(k)' = PageRows(k)
      BY <2>1, <2>2, JoinsStay
    <3>2. /\ Len(j[cursor]) \in Nat /\ Len(j[cursor - 1]) \in Nat /\ Len(PageRows(cursor)) \in Nat
          /\ Len(j[cursor]) = Len(j[cursor - 1]) + Len(PageRows(cursor)) /\ Reading(j) /\ index \in Nat
      BY <1>9, <1>10, <2>1, <3>1
    <3>3. /\ Starts(got, j[cursor]) /\ Len(got) = Len(j[cursor - 1]) + index
          /\ index <= Len(PageRows(cursor))
      BY <1>10, <2>1, <3>2 DEF Reading
    <3>4. Len(got) = Len(j[cursor])
      BY <2>1, <3>2, <3>3
    <3> QED
      BY <2>1, <3>1, <3>3, <3>4 DEF Reading
  <2> QED
    BY <1>10, <2>1, <2>2 DEF Iterating
<1>15. CASE Fetched
  <2>1. /\ UNCHANGED <<query, cursor, resultErr, got>>
        /\ fetching = "answered" /\ fetching' = "no" /\ index' = 0
        /\ \/ PageRows(cursor) = <<>> /\ query.pages[cursor] # NoColumns /\ queryState' = "closed" /\ iteration' = "eof"
           \/ UNCHANGED <<queryState, iteration>>
    <3>1. query' = query /\ cursor' = cursor /\ page' = Page(cursor)
      BY <1>15 DEF Fetched, Page, PageRows
    <3>2. page'.rows = PageRows(cursor) /\ page'.columns = (query.pages[cursor] # NoColumns)
      BY <3>1 DEF Page
    <3>3. \/ page'.rows = <<>> /\ page'.columns /\ queryState' = "closed" /\ iteration' = "eof"
          \/ UNCHANGED <<queryState, iteration>>
      BY <1>15 DEF Fetched, CloseState, Ends
    <3>4. /\ UNCHANGED <<query, cursor, resultErr, got>>
          /\ fetching = "answered" /\ fetching' = "no" /\ index' = 0
      BY <1>15 DEF Fetched, pageStarts
    <3> QED
      BY <3>2, <3>3, <3>4
  <2>2. queryState # "none" /\ iteration = "running" /\ ~resultErr
    BY <2>1 DEF Iterating, SqlInv, Begun
  <2>3. ASSUME NEW j, Joins(j, PagesOf, Len(query.pages))' PROVE Reading(j)'
    <3>1. Joins(j, PagesOf, n) /\ \A k : PageRows(k)' = PageRows(k)
      BY <2>1, <2>3, JoinsStay
    <3>2. /\ Len(j[cursor]) \in Nat /\ Len(j[cursor - 1]) \in Nat /\ Len(PageRows(cursor)) \in Nat
          /\ Len(j[cursor]) = Len(j[cursor - 1]) + Len(PageRows(cursor)) /\ Reading(j)
          /\ cursor \in 1..n /\ n \in Nat
      BY <1>9, <2>2, <3>1
    <3>3. Starts(got, j[cursor]) /\ Len(got) = Len(j[cursor - 1])
      BY <2>1, <2>2, <3>2 DEF Reading
    <3>4. Len(got) = Len(j[cursor - 1]) + index' /\ index' <= Len(PageRows(cursor))
      BY <2>1, <3>2, <3>3
    <3>5. ASSUME ~Truncated', PageRows(cursor) = <<>> PROVE cursor = n /\ Len(got) = Len(j[cursor])
      <4>1. Len(PageRows(cursor)) = 0
        BY <3>5
      <4>2. query.pages[cursor] \in {0, NoColumns}
        BY <1>7, <3>2, <4>1, PagesFacts
      <4>3. cursor = n
        BY <2>1, <3>2, <3>5, <4>2 DEF Truncated
      <4> QED
        BY <3>2, <3>3, <4>1, <4>3
    <3> QED
      BY <2>1, <2>2, <3>1, <3>3, <3>4, <3>5 DEF Reading
  <2> QED
    BY <2>1, <2>2, <2>3 DEF Iterating
<1>16. CASE FetchFails
  <2>1. /\ UNCHANGED <<query, cursor, got, index, iteration, queryState>>
        /\ fetching # "no" /\ fetching' = "no" /\ resultErr'
    BY <1>16 DEF FetchFails
  <2>2. queryState # "none" /\ iteration = "running"
    BY <2>1 DEF Iterating, SqlInv, Begun
  <2>3. ASSUME NEW j, Joins(j, PagesOf, Len(query.pages))' PROVE Reading(j)'
    <3>1. Reading(j)
      BY <2>1, <2>3, JoinsStay DEF Iterating
    <3> QED
      BY <2>1, <2>2, <3>1 DEF Reading
  <2> QED
    BY <2>1, <2>2, <2>3 DEF Iterating
<1>17. CASE MemberFetches
  <2>1. /\ UNCHANGED <<query, resultErr, got, index, iteration, queryState>>
        /\ fetching = "asked" /\ fetching' = "answered" /\ cursor' = cursor + 1 /\ queryHeld
    BY <1>17 DEF MemberFetches
  <2>2. queryState # "none" /\ iteration = "running" /\ ~resultErr
    BY <2>1 DEF Iterating, SqlInv, Begun
  <2>3. n \in Nat /\ cursor \in 1..n /\ cursor + 1 \in 1..n /\ (cursor + 1) - 1 = cursor
    BY <1>7, <2>1, <2>2, PagesFacts DEF SqlInv, Begun
  <2>4. ASSUME NEW j, Joins(j, PagesOf, Len(query.pages))' PROVE Reading(j)'
    <3>1. Joins(j, PagesOf, n) /\ \A k : PageRows(k)' = PageRows(k)
      BY <2>1, <2>4, JoinsStay
    <3>2. Reading(j) /\ got \in Seq(Row)
      BY <3>1 DEF Iterating
    <3>3. Starts(got, j[cursor]) /\ Len(got) = Len(j[cursor])
      BY <2>1, <2>2, <3>2 DEF Reading
    <3> DEFINE c == cursor + 1
    <3>4. /\ j[c] \in Seq(Row) /\ j[c - 1] \in Seq(Row) /\ c - 1 = cursor /\ PageRows(c) \in Seq(Row)
          /\ Len(j[c]) = Len(j[c - 1]) + Len(PageRows(c))
          /\ \A x \in 1..Len(j[c - 1]) : j[c][x] = j[c - 1][x]
      <4> HIDE DEF c
      <4>1. c \in 1..n /\ c - 1 = cursor
        BY <2>3 DEF c
      <4> QED
        BY <1>7, <3>1, <4>1, CursorFacts, PagesFacts
    <3> HIDE DEF c
    <3>5. Starts(got, j[c])
      BY <3>2, <3>3, <3>4 DEF Starts
    <3>6. Starts(got', j[cursor']) /\ Len(got') = Len(j[cursor' - 1])
      BY <2>1, <3>3, <3>4, <3>5 DEF c
    <3> QED
      BY <2>1, <2>2, <3>6 DEF Reading
  <2> QED
    BY <2>1, <2>2, <2>4 DEF Iterating
<1> QED
  BY <1>1, <1>2, <1>3, <1>4, <1>5, <1>6, <1>8, <1>12, <1>13, <1>14, <1>15, <1>16, <1>17 DEF SqlNext

(***************************************************************************)
(* Whatever pages a member gives and however closing, cancelling and       *)
(* losing the connection overlap with the iteration of Result: the rows    *)
(* that Next returns are the rows of the pages from the first one on, in   *)
(* order, and an iteration that ends without an error has returned all of  *)
(* them unless a page without rows cut it off.                             *)
(***************************************************************************)
THEOREM RowsComeInOrder == SqlSpec => []RowsInOrder
<1>1. SqlInv /\ Iterating => RowsInOrder
  <2> SUFFICES ASSUME SqlInv, Iterating PROVE RowsInOrder
    OBVIOUS
  <2> DEFINE n == Len(query.pages)
             all == AllRows
  <2>1. SqlTyped /\ got \in Seq(Row)
    BY DEF SqlInv, Iterating
  <2>2. /\ n \in Nat /\ PagesOf \in Seq(Seq(Row)) /\ Len(PagesOf) = n
        /\ \A k \in 1..n : PagesOf[k] \in Seq(Row)
    BY <2>1, PagesFacts
  <2>3. PICK j : Joins(j, PagesOf, n) /\ all = j[n]
    BY <2>2, FlattenSteps DEF AllRows, PagesOf
  <2>4. Reading(j)
    BY <2>3 DEF Iterating
  <2> HIDE DEF n, all
  <2>5. all \in Seq(Row) /\ \A i \in 0..n : Starts(j[i], all)
    <3>1. n \in 0..n
      BY <2>2
    <3> QED
      BY <2>2, <2>3, <3>1, JoinFacts
  <2>6. Starts(got, all)
    <3>1. CASE queryState = "none"
      <4>1. got = <<>>
        BY <3>1 DEF Iterating
      <4> QED
        BY <2>5, <4>1 DEF Starts
    <3>2. CASE queryState # "none"
      <4>1. cursor \in 1..n
        BY <3>2 DEF SqlInv, Begun, n
      <4>2. cursor \in 0..n
        BY <2>2, <4>1
      <4>3. Starts(got, j[cursor]) /\ Starts(j[cursor], all)
        BY <2>4, <2>5, <3>2, <4>2 DEF Reading
      <4>4. j[cursor] \in Seq(Row)
        BY <2>2, <2>3, <4>2, JoinFacts
      <4>5. Len(got) \in Nat /\ Len(j[cursor]) \in Nat /\ Len(all) \in Nat
        BY <2>1, <2>5, <4>4
      <4> QED
        BY <4>3, <4>5 DEF Starts
    <3> QED
      BY <3>1, <3>2
  <2>7. IsPrefix(got, all)
    BY <2>1, <2>5, <2>6 DEF Starts, IsPrefix
  <2>8. ASSUME iteration = "eof", ~query.update, ~Truncated PROVE got = all
    <3>1. cursor = n /\ Len(got) = Len(all)
      BY <2>3, <2>4, <2>8 DEF Reading, n
    <3> QED
      BY <2>1, <2>5, <2>6, <3>1 DEF Starts
  <2> QED
    BY <2>7, <2>8 DEF RowsInOrder, all
<1> QED
  BY <1>1, SqlInitInv, SqlStepInv, InitIterating, StepIterating, PTL DEF SqlSpec

---------------------------------------------------------------------------
(***************************************************************************)
(* The PN counter.  While no two clocks have arrived of which neither is   *)
(* after the other, the clock of the session includes all that the calls   *)
(* which returned have seen; a request carries it, and a member executes   *)
(* the request only when it has seen as much.                              *)
(***************************************************************************)
Clocks == UNION {[S -> Nat \ {0}] : S \in SUBSET Replicas}

PNCalls ==
    [at : {"idle", "choosing", "sent", "executed", "returned"}, op : {"get", "add"},
     excluded : SUBSET (Replicas \cup {NoMember}), last : Replicas \cup {NoMember},
     clocks : Clocks, reply : Clocks, floor : Clocks]

PNTyped ==
    /\ seenBy \in [Replicas -> Clocks]
    /\ clock \in Clocks /\ observed \in Clocks
    /\ target \in Replicas \cup {NoMember}
    /\ user \in [Users -> PNCalls]
    /\ \A u \in Users : user[u].at \in {"sent", "executed"} => user[u].last \in Replicas

Bound ==
    /\ \A u \in Users : Includes(observed, user[u].floor)
    /\ ~forked => Includes(clock, observed)
    /\ ~forked => \A u \in Users :
           /\ user[u].at = "sent" => Includes(user[u].clocks, user[u].floor)
           /\ user[u].at \in {"executed", "returned"} => Includes(user[u].reply, user[u].floor)

PNInv == PNTyped /\ Bound

LEMMA NoClock == <<>> \in Clocks /\ \A vc : Includes(vc, <<>>)
<1>1. <<>> \in [{} -> Nat \ {0}]
  OBVIOUS
<1>2. DOMAIN <<>> = {}
  OBVIOUS
<1> QED
  BY <1>1, <1>2 DEF Clocks, Includes

LEMMA ClockFacts ==
  ASSUME NEW vc \in Clocks
  PROVE  /\ DOMAIN vc \subseteq Replicas
         /\ \A r \in DOMAIN vc : vc[r] \in Nat /\ vc[r] > 0
         /\ \A r : At(vc, r) \in Nat
         /\ \A r : r \in DOMAIN vc => At(vc, r) = vc[r] /\ At(vc, r) > 0
         /\ \A r : r \notin DOMAIN vc => At(vc, r) = 0
         /\ IsFiniteSet(DOMAIN vc)
<1>1. PICK S \in SUBSET Replicas : vc \in [S -> Nat \ {0}]
  BY DEF Clocks
<1>2. IsFiniteSet(S)
  BY MembersAssumption, FS_Subset DEF Replicas
<1> QED
  BY <1>1, <1>2 DEF At

\* Includes is a preorder, ...
LEMMA IncludesIsTransitive ==
  ASSUME NEW a \in Clocks, NEW b \in Clocks, NEW c \in Clocks, Includes(a, b), Includes(b, c)
  PROVE  Includes(a, c)
<1> SUFFICES ASSUME NEW r \in DOMAIN c PROVE At(a, r) >= c[r]
  BY DEF Includes
<1>1. c[r] \in Nat /\ c[r] > 0 /\ At(b, r) >= c[r]
  BY ClockFacts DEF Includes
<1>2. r \in DOMAIN b
  BY <1>1, ClockFacts
<1>3. At(b, r) = b[r] /\ b[r] \in Nat /\ At(a, r) \in Nat /\ At(a, r) >= b[r]
  BY <1>2, ClockFacts DEF Includes
<1> QED
  BY <1>1, <1>3

LEMMA IncludesIsReflexive ==
  ASSUME NEW a \in Clocks
  PROVE  Includes(a, a)
  BY ClockFacts DEF Includes

\* ... and Join its least upper bound.
LEMMA JoinIsBound ==
  ASSUME NEW a \in Clocks, NEW b \in Clocks
  PROVE  /\ Join(a, b) \in Clocks
         /\ Includes(Join(a, b), a) /\ Includes(Join(a, b), b)
         /\ \A c \in Clocks : Includes(c, a) /\ Includes(c, b) => Includes(c, Join(a, b))
<1> DEFINE D == DOMAIN a \cup DOMAIN b
           J == Join(a, b)
<1>1. /\ D \subseteq Replicas
      /\ \A r : At(a, r) \in Nat /\ At(b, r) \in Nat
      /\ \A r \in D : At(a, r) > 0 \/ At(b, r) > 0
  BY ClockFacts
<1>2. DOMAIN J = D /\ \A r \in D : J[r] = IF At(a, r) > At(b, r) THEN At(a, r) ELSE At(b, r)
  BY DEF Join
<1>3. J \in [D -> Nat \ {0}]
  <2>1. \A r \in D : (IF At(a, r) > At(b, r) THEN At(a, r) ELSE At(b, r)) \in Nat \ {0}
    BY <1>1
  <2> QED
    BY <2>1 DEF Join
<1>4. J \in Clocks
  BY <1>1, <1>3 DEF Clocks
<1>5. Includes(J, a) /\ Includes(J, b)
  BY <1>1, <1>2, ClockFacts DEF Includes, At
<1>6. ASSUME NEW c \in Clocks, Includes(c, a), Includes(c, b) PROVE Includes(c, J)
  <2> SUFFICES ASSUME NEW r \in D PROVE At(c, r) >= J[r]
    BY <1>2 DEF Includes
  <2>1. At(c, r) \in Nat
    BY ClockFacts
  <2>2. At(c, r) >= At(a, r)
    <3>1. CASE r \in DOMAIN a
      BY <3>1, <1>6, ClockFacts DEF Includes
    <3>2. CASE r \notin DOMAIN a
      BY <3>2, <2>1, ClockFacts
    <3> QED
      BY <3>1, <3>2
  <2>3. At(c, r) >= At(b, r)
    <3>1. CASE r \in DOMAIN b
      BY <3>1, <1>6, ClockFacts DEF Includes
    <3>2. CASE r \notin DOMAIN b
      BY <3>2, <2>1, ClockFacts
    <3> QED
      BY <3>1, <3>2
  <2> QED
    BY <1>2, <2>2, <2>3
<1> QED
  BY <1>4, <1>5, <1>6

\* Of two clocks that can be compared, After never prefers the smaller one.
LEMMA AfterIsSound ==
  ASSUME NEW vc \in Clocks, NEW other \in Clocks,
         Includes(vc, other) \/ Includes(other, vc),
         NEW after \in After(vc, other)
  PROVE  /\ after => Includes(vc, other)
         /\ ~after => Includes(other, vc)
<1> DEFINE Larger     == Cardinality(DOMAIN other) < Cardinality(DOMAIN vc)
           Decides(r) == CASE r \notin DOMAIN vc                  -> FALSE
                           [] r \in DOMAIN vc /\ vc[r] > other[r] -> TRUE
                           [] OTHER                               -> Larger
           deciding   == {r \in DOMAIN other : r \notin DOMAIN vc \/ vc[r] # other[r]}
<1>1. /\ IsFiniteSet(DOMAIN vc) /\ IsFiniteSet(DOMAIN other)
      /\ Cardinality(DOMAIN vc) \in Nat /\ Cardinality(DOMAIN other) \in Nat
  BY ClockFacts, FS_CardinalityType
<1>2. after \in IF deciding = {} THEN {Larger} ELSE {Decides(r) : r \in deciding}
  BY Zenon DEF After
<1>3. CASE deciding = {}
  <2>1. after <=> Larger
    BY <1>2, <1>3, Zenon
  <2>2. DOMAIN other \subseteq DOMAIN vc /\ \A r \in DOMAIN other : vc[r] = other[r]
    BY <1>3
  <2>3. Includes(vc, other)
    BY <2>2, ClockFacts DEF Includes
  <2>4. ASSUME ~Larger PROVE Includes(other, vc)
    <3>1. DOMAIN other = DOMAIN vc
      BY <1>1, <2>2, <2>4, FS_Subset
    <3> QED
      BY <2>2, <3>1, ClockFacts DEF Includes
  <2> QED
    BY <2>1, <2>3, <2>4
<1>4. CASE deciding # {}
  <2>1. PICK r \in deciding : after <=> Decides(r)
    BY <1>2, <1>4, Zenon
  <2>2. /\ r \in DOMAIN other /\ other[r] \in Nat /\ other[r] > 0
        /\ r \in DOMAIN vc => vc[r] \in Nat /\ vc[r] # other[r]
    BY <2>1, ClockFacts
  <2>3. CASE Includes(vc, other)
    <3>1. r \in DOMAIN vc /\ vc[r] > other[r]
      BY <2>2, <2>3, ClockFacts DEF Includes
    <3>2. Decides(r)
      BY <3>1
    <3> QED
      BY <2>1, <2>3, <3>2
  <2>4. CASE Includes(other, vc)
    <3>1. DOMAIN vc \subseteq DOMAIN other
      BY <2>4, ClockFacts DEF Includes
    <3>2. ~Larger
      BY <1>1, <3>1, FS_Subset
    <3>3. ~(r \in DOMAIN vc /\ vc[r] > other[r])
      BY <2>2, <2>4, ClockFacts DEF Includes
    <3>4. ~Decides(r)
      BY <3>2, <3>3, Zenon
    <3> QED
      BY <2>1, <2>4, <3>4
  <2> QED
    BY <2>3, <2>4
<1> QED
  BY <1>3, <1>4

\* RandomPNCounterReplica answers with a data member or none.
LEMMA RandomReplicaType ==
  ASSUME NEW excluded
  PROVE  RandomReplica(excluded) \subseteq Replicas \cup {NoMember}
<1> DEFINE n == IF MaxReplicaCount > Len(OrderedMembers) THEN Len(OrderedMembers) ELSE MaxReplicaCount
           Suits(i) == OrderedMembers[i] \notin LiteMembers \union excluded
           From(idx) == {i \in idx..Len(OrderedMembers) : Suits(i)}
           Least(idx) == CHOOSE i \in From(idx) : \A j \in From(idx) : i <= j
<1>1. ASSUME NEW idx \in 1..n, From(idx) # {} PROVE OrderedMembers[Least(idx)] \in Replicas
  <2>1. From(idx) \subseteq Nat /\ From(idx) \subseteq 1..Len(OrderedMembers)
    BY MembersAssumption
  <2>2. \E i \in From(idx) : \A j \in From(idx) : i <= j
    <3> HIDE DEF From
    <3> QED
      BY <1>1, <2>1, LeastExists
  <2>3. Least(idx) \in From(idx)
    <3> HIDE DEF From
    <3> QED
      BY <2>2, Zenon
  <2>4. Least(idx) \in DOMAIN OrderedMembers /\ OrderedMembers[Least(idx)] \notin LiteMembers
    <3> HIDE DEF Least
    <3> QED
      BY <2>1, <2>3, MembersAssumption
  <2> HIDE DEF Least
  <2> QED
    BY <2>4 DEF Replicas, ToSet
<1>2. ASSUME NEW m \in RandomReplica(excluded) PROVE m \in Replicas \cup {NoMember}
  <2>1. PICK idx \in 1..n : m = IF From(idx) = {} THEN NoMember ELSE OrderedMembers[Least(idx)]
    BY <1>2, Zenon DEF RandomReplica
  <2> QED
    BY <2>1, <1>1, Zenon
<1> QED
  BY <1>2

LEMMA PNInitInv == PNInit => PNInv
<1> SUFFICES ASSUME PNInit PROVE PNInv
  OBVIOUS
<1>1. NoCall \in PNCalls
  BY NoClock DEF NoCall, PNCalls
<1>2. PNTyped
  BY <1>1, NoClock DEF PNInit, PNTyped, NoCall
<1>3. Bound
  BY NoClock DEF PNInit, Bound, NoCall
<1> QED
  BY <1>2, <1>3 DEF PNInv

LEMMA PNStepInv == PNInv /\ [PNNext]_pnVars => PNInv'
<1> SUFFICES ASSUME PNInv, [PNNext]_pnVars PROVE PNInv'
  OBVIOUS
<1>1. /\ PNTyped /\ Bound
      /\ NoCall \in PNCalls /\ NoCall.at = "idle" /\ NoCall.floor = <<>>
  BY NoClock DEF PNInv, NoCall, PNCalls
<1>2. CASE UNCHANGED pnVars
  BY <1>1, <1>2 DEF pnVars, PNInv, PNTyped, Bound
<1>3. ASSUME NEW u \in Users, NEW op \in {"get", "add"}, Call(u, op) PROVE PNInv'
  <2>1. /\ user' = [user EXCEPT ![u] = [NoCall EXCEPT !.at = "choosing", !.op = op, !.floor = observed]]
        /\ UNCHANGED <<seenBy, clock, target, observed, forked>>
    BY <1>3 DEF Call
  <2>2. [NoCall EXCEPT !.at = "choosing", !.op = op, !.floor = observed] \in PNCalls
    BY <1>1 DEF PNCalls, PNTyped
  <2>3. PNTyped'
    BY <1>1, <2>1, <2>2 DEF PNTyped, PNCalls, NoCall
  <2>4. Bound'
    BY <1>1, <2>1, IncludesIsReflexive DEF PNTyped, Bound, PNCalls, NoCall
  <2> QED
    BY <2>3, <2>4 DEF PNInv
<1>4. ASSUME NEW u \in Users, crdtOperationTarget(u) PROVE PNInv'
  <2>1. PICK m \in Replicas \cup {NoMember} :
            /\ IF m = NoMember
               THEN user' = [user EXCEPT ![u] = NoCall] /\ UNCHANGED target
               ELSE /\ target' = m
                    /\ user' = [user EXCEPT ![u].at = "sent", ![u].last = m, ![u].clocks = clock]
            /\ UNCHANGED <<seenBy, clock, observed, forked>>
    BY <1>1, <1>4, RandomReplicaType DEF crdtOperationTarget, PNTyped
  <2>2. CASE m = NoMember
    <3>1. PNTyped'
      BY <1>1, <2>1, <2>2 DEF PNTyped
    <3>2. Bound'
      BY <1>1, <2>1, <2>2, NoClock DEF PNTyped, Bound
    <3> QED
      BY <3>1, <3>2 DEF PNInv
  <2>3. CASE m # NoMember
    <3>1. /\ m \in Replicas
          /\ user' = [user EXCEPT ![u] = [user[u] EXCEPT !.at = "sent", !.last = m, !.clocks = clock]]
      BY <2>1, <2>3, <1>1 DEF PNTyped
    <3>2. [user[u] EXCEPT !.at = "sent", !.last = m, !.clocks = clock] \in PNCalls
      BY <1>1, <3>1 DEF PNTyped, PNCalls
    <3>3. PNTyped'
      BY <1>1, <2>1, <2>3, <3>1, <3>2 DEF PNTyped, PNCalls
    <3>4. /\ user'[u].floor = user[u].floor /\ user'[u].clocks = clock /\ user'[u].at = "sent"
          /\ \A v \in Users \ {u} : user'[v] = user[v]
      BY <1>1, <3>1 DEF PNTyped, PNCalls
    <3>5. ~forked => Includes(clock, user[u].floor)
      <4>1. user[u].floor \in Clocks
        BY <1>1 DEF PNTyped, PNCalls
      <4> QED
        BY <1>1, <4>1, IncludesIsTransitive DEF PNTyped, Bound
    <3>6. Bound'
      BY <1>1, <2>1, <3>4, <3>5 DEF Bound
    <3> QED
      BY <3>3, <3>6 DEF PNInv
  <2> QED
    BY <2>2, <2>3
<1>5. ASSUME NEW u \in Users, Execute(u) PROVE PNInv'
  <2> DEFINE r == user[u].last
             next == Join(seenBy[r], [s \in {r} |-> At(seenBy[r], r) + 1])
  <2>1. /\ user[u].at = "sent" /\ r \in Replicas /\ seenBy[r] \in Clocks
        /\ user[u].clocks \in Clocks /\ user[u].floor \in Clocks
        /\ UNCHANGED <<clock, target, observed, forked>>
    BY <1>1, <1>5 DEF Execute, PNTyped, PNCalls
  <2>2. next \in Clocks /\ Includes(next, seenBy[r])
    <3>1. [s \in {r} |-> At(seenBy[r], r) + 1] \in Clocks
      <4>1. At(seenBy[r], r) + 1 \in Nat \ {0}
        BY <2>1, ClockFacts
      <4>2. [s \in {r} |-> At(seenBy[r], r) + 1] \in [{r} -> Nat \ {0}]
        BY <4>1
      <4> HIDE DEF r
      <4> QED
        BY <2>1, <4>2 DEF Clocks
    <3> QED
      BY <2>1, <3>1, JoinIsBound
  <2>3. CASE ~Includes(seenBy[r], user[u].clocks)
    <3>1. user' = [user EXCEPT ![u] = NoCall] /\ UNCHANGED seenBy
      BY <1>5, <2>3 DEF Execute
    <3>2. PNTyped'
      BY <1>1, <2>1, <3>1 DEF PNTyped
    <3>3. Bound'
      BY <1>1, <2>1, <3>1, NoClock DEF PNTyped, Bound
    <3> QED
      BY <3>2, <3>3 DEF PNInv
  <2>4. CASE Includes(seenBy[r], user[u].clocks)
    <3>1. /\ seenBy' = IF user[u].op = "add" THEN [seenBy EXCEPT ![r] = next] ELSE seenBy
          /\ user' = [user EXCEPT ![u].at = "executed", ![u].reply = seenBy'[r]]
      BY <1>5, <2>4 DEF Execute
    <3>2. seenBy' \in [Replicas -> Clocks] /\ seenBy'[r] \in Clocks /\ Includes(seenBy'[r], seenBy[r])
      <4> HIDE DEF next
      <4> QED
        BY <1>1, <2>1, <2>2, <3>1, IncludesIsReflexive DEF PNTyped
    <3>3. /\ user' \in [Users -> PNCalls]
          /\ user'[u].at = "executed" /\ user'[u].last = r /\ user'[u].reply = seenBy'[r]
          /\ user'[u].floor = user[u].floor
          /\ \A v \in Users \ {u} : user'[v] = user[v]
      <4> DEFINE call == [user[u] EXCEPT !.at = "executed", !.reply = seenBy'[r]]
      <4>1. user' = [user EXCEPT ![u] = call]
        <5>1. ASSUME NEW x
              PROVE  [user EXCEPT ![u].at = "executed", ![u].reply = x]
                     = [user EXCEPT ![u] = [user[u] EXCEPT !.at = "executed", !.reply = x]]
          BY <1>1 DEF PNTyped
        <5> HIDE DEF r, next
        <5> QED
          BY <3>1, <5>1
      <4>2. /\ call \in PNCalls /\ call.at = "executed" /\ call.last = r
            /\ call.reply = seenBy'[r] /\ call.floor = user[u].floor
        BY <1>1, <3>2 DEF PNTyped, PNCalls
      <4> HIDE DEF call
      <4> QED
        BY <1>1, <4>1, <4>2 DEF PNTyped
    <3>4. PNTyped'
      BY <1>1, <2>1, <3>2, <3>3 DEF PNTyped
    <3>5. ~forked => Includes(seenBy'[r], user[u].floor)
      <4>1. ~forked => Includes(user[u].clocks, user[u].floor)
        BY <1>1, <2>1 DEF Bound
      <4>2. Includes(seenBy'[r], user[u].clocks)
        BY <2>1, <2>4, <3>2, IncludesIsTransitive
      <4> QED
        BY <2>1, <3>2, <4>1, <4>2, IncludesIsTransitive
    <3>6. Bound'
      BY <1>1, <2>1, <3>3, <3>5 DEF Bound
    <3> QED
      BY <3>4, <3>6 DEF PNInv
  <2> QED
    BY <2>3, <2>4
<1>6. ASSUME NEW u \in Users, Lost(u) PROVE PNInv'
  <2>1. /\ UNCHANGED <<seenBy, clock, target, observed, forked>>
        /\ \/ user' = [user EXCEPT ![u].at = "choosing", ![u].excluded = @ \union {user[u].last}]
           \/ user' = [user EXCEPT ![u] = NoCall]
    BY <1>6 DEF Lost
  <2> DEFINE call == [user[u] EXCEPT !.at = "choosing", !.excluded = @ \union {user[u].last}]
  <2>2. PICK new \in {call, NoCall} : user' = [user EXCEPT ![u] = new]
    BY <1>1, <2>1 DEF PNTyped
  <2>3. /\ new \in PNCalls /\ new.at \in {"idle", "choosing"}
        /\ new.floor \in {user[u].floor, <<>>}
    <3>1. user[u] \in PNCalls
      BY <1>1 DEF PNTyped
    <3>2. CASE new = call
      BY <3>1, <3>2 DEF PNCalls
    <3>3. CASE new = NoCall
      BY <1>1, <3>3
    <3> QED
      BY <2>2, <3>2, <3>3
  <2>4. PNTyped'
    BY <1>1, <2>1, <2>2, <2>3 DEF PNTyped
  <2>5. Includes(observed, new.floor)
    BY <1>1, <2>3, NoClock DEF Bound
  <2>6. Bound'
    BY <1>1, <2>1, <2>2, <2>3, <2>5 DEF Bound, PNTyped
  <2> QED
    BY <2>4, <2>6 DEF PNInv
<1>7. ASSUME NEW u \in Users, updateClock(u) PROVE PNInv'
  <2> DEFINE reply == user[u].reply
  <2>1. PICK after \in After(clock, reply) : clock' = IF after THEN clock ELSE reply
    BY <1>7 DEF updateClock
  <2>2. /\ forked' = (forked \/ ~(Includes(clock, reply) \/ Includes(reply, clock)))
        /\ observed' = Join(observed, reply)
        /\ user' = [user EXCEPT ![u].at = "returned"]
        /\ user[u].at = "executed"
        /\ UNCHANGED <<seenBy, target>>
    BY <1>7 DEF updateClock
  <2>3. reply \in Clocks /\ clock \in Clocks /\ observed \in Clocks
    BY <1>1 DEF PNTyped, PNCalls
  <2>4. /\ observed' \in Clocks /\ Includes(observed', observed)
        /\ \A c \in Clocks : Includes(c, observed) /\ Includes(c, reply) => Includes(c, observed')
    BY <2>2, <2>3, JoinIsBound
  <2>5. /\ user' \in [Users -> PNCalls] /\ user'[u].at = "returned"
        /\ user'[u].reply = reply /\ user'[u].floor = user[u].floor
        /\ \A v \in Users \ {u} : user'[v] = user[v]
    BY <1>1, <2>2 DEF PNTyped, PNCalls
  <2>6. PNTyped'
    <3>1. clock' \in Clocks
      BY <2>1, <2>3, Zenon
    <3> QED
      BY <1>1, <2>2, <2>4, <2>5, <3>1 DEF PNTyped
  <2>7. ~forked' => ~forked /\ (Includes(clock, reply) \/ Includes(reply, clock))
    BY <2>2, Zenon
  <2>8. ~forked' => Includes(clock', observed')
    <3>1. SUFFICES ASSUME ~forked' PROVE Includes(clock', observed')
      OBVIOUS
    <3>2. /\ Includes(clock, observed) /\ (Includes(clock, reply) \/ Includes(reply, clock))
          /\ after => Includes(clock, reply)
          /\ ~after => Includes(reply, clock)
      BY <1>1, <2>1, <2>3, <2>7, <3>1, AfterIsSound DEF Bound
    <3>3. CASE after
      <4>1. clock' = clock /\ Includes(clock, observed) /\ Includes(clock, reply)
        BY <1>1, <2>1, <2>7, <3>1, <3>2, <3>3 DEF Bound
      <4> QED
        BY <2>3, <2>4, <4>1
    <3>4. CASE ~after
      <4>1. clock' = reply /\ Includes(clock, observed) /\ Includes(reply, clock)
        BY <1>1, <2>1, <2>7, <3>1, <3>2, <3>4 DEF Bound
      <4>2. Includes(reply, observed) /\ Includes(reply, reply)
        BY <2>3, <4>1, IncludesIsTransitive, IncludesIsReflexive
      <4> QED
        BY <2>3, <2>4, <4>1, <4>2
    <3> QED
      BY <3>3, <3>4
  <2>9. ASSUME NEW v \in Users PROVE Includes(observed', user'[v].floor)
    <3>1. user'[v].floor = user[v].floor /\ user[v].floor \in Clocks
      BY <1>1, <2>5 DEF PNTyped, PNCalls
    <3> QED
      BY <1>1, <2>3, <2>4, <3>1, IncludesIsTransitive DEF Bound
  <2>10. Bound'
    BY <1>1, <2>2, <2>5, <2>7, <2>8, <2>9 DEF Bound
  <2> QED
    BY <2>6, <2>10 DEF PNInv
<1>8. ASSUME NEW u \in Users, Return(u) PROVE PNInv'
  <2>1. user' = [user EXCEPT ![u] = NoCall] /\ UNCHANGED <<seenBy, clock, target, observed, forked>>
    BY <1>8 DEF Return
  <2>2. PNTyped'
    BY <1>1, <2>1 DEF PNTyped
  <2>3. Bound'
    BY <1>1, <2>1, NoClock DEF PNTyped, Bound
  <2> QED
    BY <2>2, <2>3 DEF PNInv
<1>9. CASE Reset
  <2>1. /\ clock' = <<>> /\ observed' = <<>>
        /\ user' = [u \in Users |-> [user[u] EXCEPT !.floor = <<>>]]
        /\ UNCHANGED <<seenBy, target, forked>>
    BY <1>9 DEF Reset
  <2>2. ASSUME NEW u \in Users
        PROVE  /\ user'[u] \in PNCalls /\ user'[u].floor = <<>>
               /\ user'[u].at = user[u].at /\ user'[u].last = user[u].last
    BY <1>1, <2>1, NoClock DEF PNTyped, PNCalls
  <2>3. PNTyped'
    BY <1>1, <2>1, <2>2, NoClock DEF PNTyped
  <2>4. Bound'
    BY <2>1, <2>2, NoClock DEF Bound
  <2> QED
    BY <2>3, <2>4 DEF PNInv
<1>10. ASSUME NEW r \in Replicas, NEW s \in Replicas, Gossip(r, s) PROVE PNInv'
  <2>1. /\ seenBy' = [seenBy EXCEPT ![s] = Join(seenBy[s], seenBy[r])]
        /\ UNCHANGED <<clock, target, user, observed, forked>>
    BY <1>1, <1>10 DEF Gossip, PNTyped
  <2>2. Join(seenBy[s], seenBy[r]) \in Clocks
    BY <1>1, JoinIsBound DEF PNTyped
  <2> QED
    BY <1>1, <2>1, <2>2 DEF PNInv, PNTyped, Bound
<1> QED
  BY <1>2, <1>3, <1>4, <1>5, <1>6, <1>7, <1>8, <1>9, <1>10 DEF PNNext

(***************************************************************************)
(* Monotonic reads and read-your-writes for every number of replicas and   *)
(* goroutines, whatever fails: a call that returned has seen all that the  *)
(* calls had seen which returned before it began, as long as no two clocks *)
(* that cannot be compared have reached the session (PNCounter.clock).     *)
(***************************************************************************)
THEOREM SessionsAreMonotone == PNSpec => []SessionIsMonotone
<1>1. PNInv => SessionIsMonotone
  BY DEF PNInv, Bound, SessionIsMonotone
<1> QED
  BY <1>1, PNInitInv, PNStepInv, PTL DEF PNSpec

---------------------------------------------------------------------------
(***************************************************************************)
(* The Flake ID generator.  The IDs of a member are those that leave its   *)
(* number as the remainder, and the quotient counts them; a batch is an    *)
(* interval of quotients of one member.  The intervals are below what the  *)
(* members have handed out and do not overlap, and the IDs that were       *)
(* returned lie in a batch, at or below its index.                         *)
(***************************************************************************)
N == Cardinality(IdMembers)

MemberOf(id) == id % N
NumberOf(id) == id \div N

\* the numbers of batch b
First(b) == NumberOf(batches[b].base)
End(b)   == First(b) + batches[b].size

BatchRecords == [base : Nat, increment : {N}, size : Nat, index : {-1} \cup Nat, expired : BOOLEAN]
TakerRecords == [at : {"idle", "loaded", "counting", "empty", "asking"}, batch : Nat]

FlakeTyped ==
    /\ batches \in Seq(BatchRecords) /\ batches # <<>>
    /\ handedOut \in [IdMembers -> Nat]
    /\ taker \in [Takers -> TakerRecords]
    /\ \A t \in Takers : taker[t].at # "idle" => taker[t].batch \in DOMAIN batches
    /\ taken \in Seq(Nat)

HandedOut == \A b \in DOMAIN batches :
    batches[b].size > 0 => End(b) <= handedOut[MemberOf(batches[b].base)]

Apart == \A b, c \in DOMAIN batches :
    b # c /\ MemberOf(batches[b].base) = MemberOf(batches[c].base)
        => \/ batches[b].size = 0 \/ batches[c].size = 0
           \/ End(b) <= First(c) \/ End(c) <= First(b)

IsOf(id, b) ==
    /\ MemberOf(id) = MemberOf(batches[b].base)
    /\ First(b) <= NumberOf(id) /\ NumberOf(id) < End(b)
    /\ NumberOf(id) <= First(b) + batches[b].index

Counted == \A i \in DOMAIN taken : \E b \in DOMAIN batches : IsOf(taken[i], b)

Different == \A i, j \in DOMAIN taken : taken[i] = taken[j] => i = j

FlakeInv == FlakeTyped /\ HandedOut /\ Apart /\ Counted /\ Different

LEMMA MembersFact == N \in Nat \ {0} /\ IdMembers = 0..(N - 1)
<1>1. N \in Nat /\ N # 0
  BY MembersHandOut, FS_CardinalityType, FS_EmptySet DEF N
<1> QED
  BY <1>1, MembersHandOut DEF N

\* What an ID says about its member and its number.
LEMMA IdFacts ==
  ASSUME NEW id \in Nat
  PROVE  MemberOf(id) \in IdMembers /\ NumberOf(id) \in Nat /\ id = MemberOf(id) + NumberOf(id) * N
  BY MembersFact DEF MemberOf, NumberOf

LEMMA IdOfMember ==
  ASSUME NEW m \in IdMembers, NEW k \in Nat
  PROVE  m + k * N \in Nat /\ MemberOf(m + k * N) = m /\ NumberOf(m + k * N) = k
  BY MembersFact DEF MemberOf, NumberOf

LEMMA IdOfBatch ==
  ASSUME NEW base \in Nat, NEW idx \in Nat
  PROVE  /\ base + idx * N \in Nat
         /\ MemberOf(base + idx * N) = MemberOf(base)
         /\ NumberOf(base + idx * N) = NumberOf(base) + idx
<1> DEFINE m == MemberOf(base)
           k == NumberOf(base)
<1>1. m \in IdMembers /\ k \in Nat /\ base = m + k * N
  BY IdFacts
<1> HIDE DEF m, k
<1>2. base + idx * N = m + (k + idx) * N
  BY <1>1, MembersFact
<1> QED
  BY <1>1, <1>2, IdOfMember DEF m, k

LEMMA BatchFacts ==
  ASSUME batches \in Seq(BatchRecords), NEW b \in DOMAIN batches
  PROVE  /\ batches[b] \in BatchRecords
         /\ batches[b].base \in Nat /\ batches[b].increment = N /\ batches[b].size \in Nat
         /\ batches[b].index \in Int /\ batches[b].index + 1 \in Nat
<1>1. batches[b] \in BatchRecords
  OBVIOUS
<1> QED
  BY <1>1 DEF BatchRecords

LEMMA BatchReplaced ==
  ASSUME batches \in Seq(BatchRecords), NEW b \in DOMAIN batches, NEW x \in BatchRecords
  PROVE  LET new == [batches EXCEPT ![b] = x]
         IN  /\ new \in Seq(BatchRecords) /\ DOMAIN new = DOMAIN batches
             /\ new[b] = x /\ \A c \in DOMAIN batches \ {b} : new[c] = batches[c]
  OBVIOUS

\* The bounds of a batch in the next state.
LEMMA NextBounds ==
  ASSUME NEW id, NEW b
  PROVE  /\ First(b)' = NumberOf(batches'[b].base)
         /\ End(b)' = NumberOf(batches'[b].base) + batches'[b].size
         /\ IsOf(id, b)' <=> /\ MemberOf(id) = MemberOf(batches'[b].base)
                             /\ First(b)' <= NumberOf(id) /\ NumberOf(id) < End(b)'
                             /\ NumberOf(id) <= First(b)' + batches'[b].index
  BY DEF First, End, IsOf, MemberOf, NumberOf, N

LEMMA FlakeInitInv == FlakeInit => FlakeInv
<1> SUFFICES ASSUME FlakeInit PROVE FlakeInv
  OBVIOUS
<1>1. Batch(0, 0, 0, TRUE) \in BatchRecords /\ Batch(0, 0, 0, TRUE).size = 0
  BY DEF Batch, BatchRecords, N
<1>2. ASSUME NEW x \in BatchRecords, batches = <<x>>
      PROVE  batches \in Seq(BatchRecords) /\ DOMAIN batches = {1} /\ batches[1] = x
  BY <1>2
<1>3. /\ batches \in Seq(BatchRecords) /\ batches # <<>>
      /\ \A b \in DOMAIN batches : b = 1 /\ batches[b].size = 0
  <2>1. batches = <<Batch(0, 0, 0, TRUE)>>
    BY DEF FlakeInit
  <2> QED
    BY <1>1, <1>2, <2>1
<1>4. FlakeTyped
  <2>1. handedOut \in [IdMembers -> Nat] /\ taken \in Seq(Nat)
    BY DEF FlakeInit
  <2>2. /\ taker \in [Takers -> TakerRecords]
        /\ \A t \in Takers : taker[t].at = "idle"
    BY DEF FlakeInit, TakerRecords
  <2> QED
    BY <1>3, <2>1, <2>2 DEF FlakeTyped
<1>5. HandedOut /\ Apart
  BY <1>3 DEF HandedOut, Apart
<1>6. Counted /\ Different
  BY DEF FlakeInit, Counted, Different
<1> QED
  BY <1>4, <1>6, <1>5 DEF FlakeInv

\* A step that leaves the bounds of the batches alone and lowers no index.
LEMMA BatchesStay ==
  ASSUME FlakeInv, DOMAIN batches' = DOMAIN batches, batches' \in Seq(BatchRecords),
         \A b \in DOMAIN batches : /\ batches'[b].base = batches[b].base
                                   /\ batches'[b].size = batches[b].size
                                   /\ batches'[b].index >= batches[b].index,
         handedOut' \in [IdMembers -> Nat],
         \A m \in IdMembers : handedOut'[m] >= handedOut[m]
  PROVE  /\ HandedOut' /\ Apart'
         /\ \A id \in Nat : \A b \in DOMAIN batches : IsOf(id, b) => IsOf(id, b)'
<1>1. ASSUME NEW b \in DOMAIN batches
      PROVE  /\ First(b)' = First(b) /\ End(b)' = End(b)
             /\ MemberOf(batches'[b].base) = MemberOf(batches[b].base)
             /\ MemberOf(batches[b].base) \in IdMembers
             /\ First(b) \in Nat /\ batches[b].size \in Nat
             /\ batches[b].index \in Int /\ batches'[b].index \in Int
  <2>1. batches[b] \in BatchRecords /\ batches'[b] \in BatchRecords
    BY DEF FlakeInv, FlakeTyped
  <2>2. /\ batches[b].base \in Nat /\ batches[b].size \in Nat
        /\ batches[b].index \in Int /\ batches'[b].index \in Int
    BY <2>1 DEF BatchRecords
  <2> QED
    BY <2>2, IdFacts, NextBounds DEF First, End
<1>2. HandedOut'
  <2> SUFFICES ASSUME NEW b \in DOMAIN batches, batches[b].size > 0
               PROVE  End(b)' <= handedOut'[MemberOf(batches'[b].base)]
    BY DEF HandedOut, MemberOf, N
  <2>1. End(b) <= handedOut[MemberOf(batches[b].base)] /\ End(b) = First(b) + batches[b].size
    BY DEF FlakeInv, HandedOut, End
  <2>2. handedOut \in [IdMembers -> Nat]
    BY DEF FlakeInv, FlakeTyped
  <2> QED
    BY <1>1, <2>1, <2>2
<1>3. Apart'
  BY <1>1 DEF Apart, FlakeInv, MemberOf, N
<1>4. ASSUME NEW id \in Nat, NEW b \in DOMAIN batches, IsOf(id, b) PROVE IsOf(id, b)'
  <2>1. NumberOf(id) \in Nat /\ End(b) = First(b) + batches[b].size
    BY IdFacts DEF End
  <2>2. /\ MemberOf(id) = MemberOf(batches[b].base)
        /\ First(b) <= NumberOf(id) /\ NumberOf(id) < End(b)
        /\ NumberOf(id) <= First(b) + batches[b].index
    BY <1>4 DEF IsOf
  <2>3. /\ MemberOf(id) = MemberOf(batches'[b].base)
        /\ First(b)' <= NumberOf(id) /\ NumberOf(id) < End(b)'
        /\ NumberOf(id) <= First(b)' + batches'[b].index
    BY <1>1, <2>1, <2>2
  <2> QED
    BY <2>3, NextBounds
<1> QED
  BY <1>2, <1>3, <1>4

\* A step that takes no ID and replaces no batch.
LEMMA NothingTaken ==
  ASSUME FlakeInv, batches' = batches, taken' = taken,
         handedOut' \in [IdMembers -> Nat],
         \A m \in IdMembers : handedOut'[m] >= handedOut[m],
         taker' \in [Takers -> TakerRecords],
         \A t \in Takers : taker'[t].at # "idle" => taker'[t].batch \in DOMAIN batches
  PROVE  FlakeInv'
<1>1. ASSUME NEW b \in DOMAIN batches PROVE batches[b].index \in Int
  BY BatchFacts DEF FlakeInv, FlakeTyped
<1>2. /\ HandedOut' /\ Apart'
      /\ \A id \in Nat : \A b \in DOMAIN batches : IsOf(id, b) => IsOf(id, b)'
  BY <1>1, BatchesStay DEF FlakeInv, FlakeTyped
<1>3. Counted'
  BY <1>2 DEF Counted, FlakeInv, FlakeTyped
<1> QED
  BY <1>2, <1>3 DEF FlakeInv, FlakeTyped, Different

LEMMA FlakeStepInv == FlakeInv /\ [FlakeNext]_flakeVars => FlakeInv'
<1> SUFFICES ASSUME FlakeInv, [FlakeNext]_flakeVars PROVE FlakeInv'
  OBVIOUS
<1>1. /\ batches \in Seq(BatchRecords) /\ batches # <<>> /\ handedOut \in [IdMembers -> Nat]
      /\ taker \in [Takers -> TakerRecords] /\ taken \in Seq(Nat)
      /\ \A t \in Takers : taker[t].at # "idle" => taker[t].batch \in DOMAIN batches
      /\ \A b \in DOMAIN batches : batches[b] \in BatchRecords
  BY DEF FlakeInv, FlakeTyped
<1>2. CASE UNCHANGED flakeVars
  BY <1>1, <1>2, NothingTaken DEF flakeVars
<1>3. CASE Expires
  <2> DEFINE new == [batches EXCEPT ![Stored].expired = TRUE]
  <2>1. batches' = new /\ UNCHANGED <<handedOut, taker, taken>>
    BY <1>3 DEF Expires
  <2>2. /\ new \in Seq(BatchRecords) /\ DOMAIN new = DOMAIN batches
        /\ \A b \in DOMAIN batches : /\ new[b].base = batches[b].base
                                     /\ new[b].size = batches[b].size
                                     /\ new[b].index = batches[b].index
                                     /\ batches[b].index \in Int
    <3>1. Stored \in DOMAIN batches
      BY <1>1 DEF Stored
    <3> DEFINE x == [batches[Stored] EXCEPT !.expired = TRUE]
    <3>2. /\ x \in BatchRecords /\ x.base = batches[Stored].base
          /\ x.size = batches[Stored].size /\ x.index = batches[Stored].index
      BY <1>1, <3>1 DEF BatchRecords
    <3>3. new = [batches EXCEPT ![Stored] = x]
      OBVIOUS
    <3> HIDE DEF x, new
    <3>4. /\ new \in Seq(BatchRecords) /\ DOMAIN new = DOMAIN batches
          /\ new[Stored] = x /\ \A c \in DOMAIN batches \ {Stored} : new[c] = batches[c]
      BY <1>1, <3>1, <3>2, <3>3, BatchReplaced
    <3> QED
      BY <1>1, <3>2, <3>4, BatchFacts
  <2> HIDE DEF new
  <2>3. /\ HandedOut' /\ Apart'
        /\ \A id \in Nat : \A b \in DOMAIN batches : IsOf(id, b) => IsOf(id, b)'
    <3>1. batches' \in Seq(BatchRecords) /\ DOMAIN batches' = DOMAIN batches
      BY <2>1, <2>2, Zenon
    <3>2. ASSUME NEW b \in DOMAIN batches
          PROVE  /\ batches'[b].base = batches[b].base /\ batches'[b].size = batches[b].size
                 /\ batches'[b].index = batches[b].index /\ batches[b].index \in Int
      BY <2>1, <2>2, Zenon
    <3>3. \A b \in DOMAIN batches : batches'[b].index >= batches[b].index
      <4>1. \A x \in Int : x >= x
        OBVIOUS
      <4> QED
        BY <3>2, <4>1, Zenon
    <3>4. handedOut' \in [IdMembers -> Nat] /\ \A m \in IdMembers : handedOut'[m] >= handedOut[m]
      BY <1>1, <2>1
    <3> QED
      BY <3>1, <3>2, <3>3, <3>4, BatchesStay, Zenon
  <2>4. Counted'
    <3>1. DOMAIN batches' = DOMAIN batches /\ \A b \in DOMAIN batches : batches'[b].index = batches[b].index
      BY <2>1, <2>2, Zenon
    <3>2. Counted
      BY DEF FlakeInv
    <3> QED
      BY <1>1, <2>1, <2>3, <3>1, <3>2, SMTT(30) DEF Counted
  <2> QED
    BY <1>1, <2>1, <2>2, <2>3, <2>4 DEF FlakeInv, FlakeTyped, Different
<1>4. ASSUME NEW t \in Takers, LoadBatch(t) PROVE FlakeInv'
  <2>1. Stored \in DOMAIN batches /\ Stored \in Nat
    BY <1>1 DEF Stored
  <2>2. /\ taker' = [taker EXCEPT ![t] = [at |-> "loaded", batch |-> Stored]]
        /\ UNCHANGED <<batches, handedOut, taken>>
    BY <1>4 DEF LoadBatch
  <2>3. /\ taker' \in [Takers -> TakerRecords]
        /\ \A s \in Takers : taker'[s].at # "idle" => taker'[s].batch \in DOMAIN batches
    BY <1>1, <2>1, <2>2 DEF TakerRecords
  <2> QED
    BY <1>1, <2>2, <2>3, NothingTaken
<1>5. ASSUME NEW t \in Takers, CheckExpiry(t) PROVE FlakeInv'
  <2>1. PICK where \in {"idle", "counting", "empty", "asking"} : taker' = [taker EXCEPT ![t].at = where]
    BY <1>5 DEF CheckExpiry, Goes
  <2>2. taker[t].at # "idle" /\ UNCHANGED <<batches, handedOut, taken>>
    BY <1>5 DEF CheckExpiry
  <2>3. /\ taker' \in [Takers -> TakerRecords]
        /\ \A s \in Takers : taker'[s].at # "idle" => taker'[s].batch \in DOMAIN batches
    BY <1>1, <2>1, <2>2 DEF TakerRecords
  <2> QED
    BY <1>1, <2>2, <2>3, NothingTaken
<1>6. ASSUME NEW t \in Takers, Lock(t) PROVE FlakeInv'
  <2>1. PICK where \in {"idle", "counting", "empty", "asking"} : taker' = [taker EXCEPT ![t].at = where]
    BY <1>6 DEF Lock, Goes
  <2>2. taker[t].at # "idle" /\ UNCHANGED <<batches, handedOut, taken>>
    BY <1>6 DEF Lock
  <2>3. /\ taker' \in [Takers -> TakerRecords]
        /\ \A s \in Takers : taker'[s].at # "idle" => taker'[s].batch \in DOMAIN batches
    BY <1>1, <2>1, <2>2 DEF TakerRecords
  <2> QED
    BY <1>1, <2>2, <2>3, NothingTaken
<1>7. ASSUME NEW t \in Takers, NewBatchFails(t) PROVE FlakeInv'
  <2>1. /\ taker' = [taker EXCEPT ![t].at = "idle"] /\ UNCHANGED <<batches, taken>>
        /\ \E m \in IdMembers : handedOut' = [handedOut EXCEPT ![m] = @ + BatchSize]
    BY <1>7 DEF NewBatchFails, Goes
  <2>2. /\ taker' \in [Takers -> TakerRecords]
        /\ \A s \in Takers : taker'[s].at # "idle" => taker'[s].batch \in DOMAIN batches
    BY <1>1, <2>1 DEF TakerRecords
  <2>3. /\ handedOut' \in [IdMembers -> Nat]
        /\ \A m \in IdMembers : handedOut'[m] >= handedOut[m]
    BY <1>1, <2>1, MembersHandOut
  <2> QED
    BY <2>1, <2>2, <2>3, NothingTaken
<1>8. ASSUME NEW t \in Takers, NextID(t) PROVE FlakeInv'
  <2>1. PICK b \in DOMAIN batches : b = taker[t].batch
    BY <1>1, <1>8 DEF NextID
  <2>2. PICK idx : idx = batches[b].index + 1
    OBVIOUS
  <2>3. PICK id : id = batches[b].base + idx * batches[b].increment
    OBVIOUS
  <2>4. PICK new : new = [batches EXCEPT ![b].index = idx]
    OBVIOUS
  <2>5. /\ b \in DOMAIN batches /\ batches' = new
        /\ taker[t].at = "counting" /\ UNCHANGED handedOut
        /\ \/ /\ idx < batches[b].size
              /\ taken' = Append(taken, id) /\ taker' = [taker EXCEPT ![t].at = "idle"]
           \/ /\ taken' = taken /\ taker' = [taker EXCEPT ![t].at = "empty"]
    BY <1>8, <2>1, <2>2, <2>3, <2>4 DEF NextID, isServed, Goes
  <2>6. /\ batches[b].base \in Nat /\ batches[b].increment = N /\ batches[b].size \in Nat
        /\ batches[b].index \in Int /\ idx \in Nat
    BY <1>1, <2>2, <2>5, BatchFacts
  <2>7. /\ new \in Seq(BatchRecords) /\ DOMAIN new = DOMAIN batches
        /\ \A c \in DOMAIN batches : /\ new[c].base = batches[c].base
                                     /\ new[c].size = batches[c].size
                                     /\ new[c].index >= batches[c].index
        /\ new[b].index = idx
    <3> DEFINE x == [batches[b] EXCEPT !.index = idx]
    <3>1. x \in BatchRecords /\ x.base = batches[b].base /\ x.size = batches[b].size /\ x.index = idx
      BY <1>1, <2>5, <2>6 DEF BatchRecords
    <3>2. new = [batches EXCEPT ![b] = x]
      BY <2>4
    <3> HIDE DEF x
    <3>3. /\ new \in Seq(BatchRecords) /\ DOMAIN new = DOMAIN batches
          /\ new[b] = x /\ \A c \in DOMAIN batches \ {b} : new[c] = batches[c]
      BY <1>1, <2>5, <3>1, <3>2, BatchReplaced
    <3>4. ASSUME NEW c \in DOMAIN batches \ {b} PROVE batches[c].index \in Int
      BY <1>1, BatchFacts
    <3> QED
      BY <2>2, <2>5, <2>6, <3>1, <3>3, <3>4
  <2>8. /\ HandedOut' /\ Apart'
        /\ \A i \in Nat : \A c \in DOMAIN batches : IsOf(i, c) => IsOf(i, c)'
    BY <1>1, <2>5, <2>7, BatchesStay, SMTT(40)
  <2>9. /\ taker' \in [Takers -> TakerRecords]
        /\ \A s \in Takers : taker'[s].at # "idle" => taker'[s].batch \in DOMAIN batches'
    BY <1>1, <2>5, <2>7 DEF TakerRecords
  <2>10. CASE taken' = taken
    <3>1. DOMAIN batches' = DOMAIN batches
      BY <2>5, <2>7
    <3>2. Counted'
      BY <1>1, <2>8, <2>10, <3>1 DEF Counted, FlakeInv
    <3> QED
      BY <1>1, <2>5, <2>7, <2>8, <2>9, <2>10, <3>2 DEF FlakeInv, FlakeTyped, Different
  <2>11. CASE idx < batches[b].size /\ taken' = Append(taken, id)
    <3>1. /\ id \in Nat /\ MemberOf(id) = MemberOf(batches[b].base)
          /\ NumberOf(id) = First(b) + idx /\ First(b) \in Nat
      BY <2>3, <2>6, IdOfBatch, IdFacts DEF First
    <3>2. IsOf(id, b)'
      <4>1. First(b)' = First(b) /\ End(b)' = First(b) + batches[b].size
        BY <2>5, <2>7, NextBounds DEF First
      <4>2. /\ MemberOf(id) = MemberOf(batches'[b].base)
            /\ First(b)' <= NumberOf(id) /\ NumberOf(id) < End(b)'
            /\ NumberOf(id) <= First(b)' + batches'[b].index
        BY <2>5, <2>6, <2>7, <2>11, <3>1, <4>1
      <4> QED
        BY <4>2, NextBounds
    <3>3. /\ taken' \in Seq(Nat) /\ Len(taken) \in Nat
          /\ DOMAIN taken = 1..Len(taken) /\ DOMAIN taken' = 1..(Len(taken) + 1)
          /\ taken'[Len(taken) + 1] = id
          /\ \A i \in DOMAIN taken : taken'[i] = taken[i] /\ taken[i] \in Nat
      BY <1>1, <2>11, <3>1
    <3>4. Counted'
      BY <1>1, <2>5, <2>7, <2>8, <3>2, <3>3 DEF Counted, FlakeInv
    <3>5. ASSUME NEW i \in DOMAIN taken PROVE taken[i] # id
      <4>1. PICK c \in DOMAIN batches : IsOf(taken[i], c)
        BY DEF FlakeInv, Counted
      <4>2. SUFFICES ASSUME taken[i] = id PROVE FALSE
        OBVIOUS
      <4>3. /\ batches[c].base \in Nat /\ batches[c].size \in Nat /\ First(c) \in Nat
            /\ batches[c].index \in Int
        BY <1>1, IdFacts, BatchFacts DEF First
      <4>4. CASE c = b
        BY <2>2, <2>6, <3>1, <4>1, <4>2, <4>4 DEF IsOf
      <4>5. CASE c # b
        <5>1. /\ MemberOf(batches[c].base) = MemberOf(batches[b].base)
              /\ First(c) <= First(b) + idx /\ First(b) + idx < First(c) + batches[c].size
          BY <3>1, <4>1, <4>2 DEF IsOf, End
        <5>2. \/ batches[b].size = 0 \/ batches[c].size = 0
              \/ First(b) + batches[b].size <= First(c) \/ First(c) + batches[c].size <= First(b)
          BY <2>5, <4>5, <5>1 DEF FlakeInv, Apart, End
        <5> QED
          BY <2>6, <2>11, <3>1, <4>3, <5>1, <5>2
      <4> QED
        BY <4>4, <4>5
    <3>6. Different'
      BY <3>3, <3>5 DEF Different, FlakeInv
    <3> QED
      BY <1>1, <2>5, <2>7, <2>8, <2>9, <3>3, <3>4, <3>6 DEF FlakeInv, FlakeTyped
  <2> QED
    BY <2>5, <2>10, <2>11
<1>9. ASSUME NEW t \in Takers, NEW m \in IdMembers, NewBatch(t, m) PROVE FlakeInv'
  <2>1. PICK base : base = m + handedOut[m] * N
    OBVIOUS
  <2>2. PICK new : new = Batch(base, BatchSize, -1, FALSE)
    OBVIOUS
  <2>3. PICK last : last = Len(batches) + 1
    OBVIOUS
  <2>4. /\ batches' = Append(batches, new)
        /\ handedOut' = [handedOut EXCEPT ![m] = @ + BatchSize]
        /\ taker' = [taker EXCEPT ![t].at = "idle"] /\ taken' = taken
    BY <1>9, <2>1, <2>2 DEF NewBatch, Goes, N
  <2>5. base \in Nat /\ MemberOf(base) = m /\ NumberOf(base) = handedOut[m] /\ handedOut[m] \in Nat
    BY <1>1, <2>1, IdOfMember
  <2>6. new \in BatchRecords /\ new.base = base /\ new.size = BatchSize /\ new.index = -1
    BY <2>5, <2>2, MembersHandOut DEF Batch, BatchRecords, N
  <2>7. /\ batches' \in Seq(BatchRecords) /\ DOMAIN batches' = DOMAIN batches \cup {last}
        /\ last \notin DOMAIN batches /\ batches'[last] = new
        /\ \A b \in DOMAIN batches : batches'[b] = batches[b]
    BY <1>1, <2>3, <2>4, <2>6
  <2>8. /\ handedOut' \in [IdMembers -> Nat] /\ handedOut'[m] = handedOut[m] + BatchSize
        /\ \A n \in IdMembers : handedOut'[n] >= handedOut[n]
    BY <1>1, <2>4, MembersHandOut
  <2>9. ASSUME NEW b \in DOMAIN batches
        PROVE  /\ First(b)' = First(b) /\ End(b)' = End(b) /\ First(b) \in Nat /\ End(b) \in Nat
               /\ MemberOf(batches[b].base) \in IdMembers
               /\ batches[b].size \in Nat
               /\ batches[b].size > 0 => End(b) <= handedOut[MemberOf(batches[b].base)]
    <3>1. batches[b].base \in Nat /\ batches[b].size \in Nat
      BY <1>1, BatchFacts
    <3>2. MemberOf(batches[b].base) \in IdMembers /\ First(b) \in Nat /\ End(b) \in Nat
      BY <3>1, IdFacts DEF First, End
    <3>3. First(b)' = First(b) /\ End(b)' = End(b)
      BY <2>7, NextBounds DEF First, End
    <3> QED
      BY <3>1, <3>2, <3>3 DEF FlakeInv, HandedOut
  <2>10. First(last)' = handedOut[m] /\ End(last)' = handedOut[m] + BatchSize
    BY <2>5, <2>6, <2>7, NextBounds
  <2>11. HandedOut'
    <3> SUFFICES ASSUME NEW b \in DOMAIN batches', batches'[b].size > 0
                 PROVE  End(b)' <= handedOut'[MemberOf(batches'[b].base)]
      BY DEF HandedOut, MemberOf, N
    <3>1. CASE b = last
      BY <2>5, <2>6, <2>7, <2>8, <2>10, <3>1
    <3>2. CASE b \in DOMAIN batches
      BY <1>1, <2>7, <2>8, <2>9, <3>2
    <3> QED
      BY <2>7, <3>1, <3>2
  <2>12. Apart'
    <3> SUFFICES ASSUME NEW b \in DOMAIN batches', NEW c \in DOMAIN batches', b # c,
                        MemberOf(batches'[b].base) = MemberOf(batches'[c].base),
                        batches'[b].size # 0, batches'[c].size # 0
                 PROVE  End(b)' <= First(c)' \/ End(c)' <= First(b)'
      BY DEF Apart, MemberOf, N
    <3>1. CASE b \in DOMAIN batches /\ c \in DOMAIN batches
      BY <2>7, <2>9, <3>1 DEF FlakeInv, Apart
    <3>2. CASE b = last
      <4>1. c \in DOMAIN batches /\ MemberOf(batches[c].base) = m /\ batches[c].size > 0
        BY <2>5, <2>6, <2>7, <2>9, <3>2
      <4> QED
        BY <2>9, <2>10, <3>2, <4>1
    <3>3. CASE c = last
      <4>1. b \in DOMAIN batches /\ MemberOf(batches[b].base) = m /\ batches[b].size > 0
        BY <2>5, <2>6, <2>7, <2>9, <3>3
      <4> QED
        BY <2>9, <2>10, <3>3, <4>1
    <3> QED
      BY <2>7, <3>1, <3>2, <3>3
  <2>13. Counted'
    <3>1. ASSUME NEW id, NEW b \in DOMAIN batches, IsOf(id, b) PROVE IsOf(id, b)'
      BY <2>7, <2>9, <3>1, NextBounds DEF IsOf
    <3> QED
      BY <2>4, <2>7, <3>1 DEF Counted, FlakeInv
  <2>14. FlakeTyped'
    <3>1. /\ taker' \in [Takers -> TakerRecords]
          /\ \A s \in Takers : taker'[s].at # "idle" => taker'[s].batch \in DOMAIN batches
      BY <1>1, <2>4 DEF TakerRecords
    <3>2. batches' # <<>> /\ DOMAIN batches \subseteq DOMAIN batches'
      BY <2>7
    <3> QED
      BY <1>1, <2>4, <2>7, <2>8, <3>1, <3>2 DEF FlakeTyped
  <2> QED
    BY <2>4, <2>11, <2>12, <2>13, <2>14 DEF FlakeInv, Different
<1> QED
  BY <1>2, <1>3, <1>4, <1>5, <1>6, <1>7, <1>8, <1>9 DEF FlakeNext

(***************************************************************************)
(* For every number of goroutines and members and every size of a batch,   *)
(* NewID returns no ID twice and none that no member has handed out,       *)
(* though the index of a batch is counted without the mutex, beyond the    *)
(* end of the batch and after it was replaced.                             *)
(***************************************************************************)
THEOREM NoIdTwice == FlakeSpec => []IdsAreUnique
<1>1. FlakeInv => IdsAreUnique
  <2> SUFFICES ASSUME FlakeInv, NEW i \in DOMAIN taken
               PROVE  taken[i] \div N < handedOut[taken[i] % N]
    BY DEF FlakeInv, Different, IdsAreUnique, N
  <2>1. PICK b \in DOMAIN batches : IsOf(taken[i], b)
    BY DEF FlakeInv, Counted
  <2>2. /\ taken[i] \in Nat /\ batches[b].base \in Nat /\ batches[b].size \in Nat
        /\ handedOut \in [IdMembers -> Nat]
    BY BatchFacts DEF FlakeInv, FlakeTyped
  <2>3. /\ MemberOf(taken[i]) \in IdMembers /\ NumberOf(taken[i]) \in Nat /\ First(b) \in Nat
    BY <2>2, IdFacts DEF First
  <2>4. NumberOf(taken[i]) < handedOut[MemberOf(taken[i])]
    BY <2>1, <2>2, <2>3 DEF IsOf, FlakeInv, HandedOut, End
  <2> QED
    BY <2>4 DEF NumberOf, MemberOf
<1> QED
  BY <1>1, FlakeInitInv, FlakeStepInv, PTL DEF FlakeSpec

---------------------------------------------------------------------------
(***************************************************************************)
(* The lock.  A request that the member has carried out is in the lock's   *)
(* reference until its goroutine makes another one: the member's count is  *)
(* what the goroutine was told, and what it is about to be told.           *)
(***************************************************************************)
\* A goroutine with an ID: its context is made, or it has none.
Ready(g) == ContextOf[g] # NoContext => lockIDOf[ContextOf[g]] # 0
Owns(g)  == Ready(g) /\ keyLock.owner = ExtractLockID(g)

\* Types; IDs are unique, and a lock that is taken is taken by a goroutine.
LockTyped ==
    /\ nextID \in Nat /\ lockIDOf \in [LockContexts -> 0..nextID]
    /\ \A c, d \in LockContexts : lockIDOf[c] = lockIDOf[d] => c = d \/ lockIDOf[c] = 0
    /\ locking \in [Goroutines -> [kind : {"none", "lock", "try", "unlock", "force"},
                                   step : {"idle", "sent", "granted", "refused", "error"},
                                   lockID : Nat, reference : Nat]]
    /\ held \in [Goroutines -> Int]
    /\ keyLock \in [owner : -1..nextID, count : Nat, reference : 0..nextID]
    /\ keyLock.owner = -1 => keyLock = Free
    /\ keyLock.owner # -1 => keyLock.count >= 1 /\ \E g \in Goroutines : Owns(g)
    /\ unsure \subseteq Goroutines /\ forced \in BOOLEAN

\* A call carries the ID of its goroutine.
Calling ==
    \A g \in Goroutines :
        /\ locking[g].step = "idle" <=> locking[g] = NoLockCall
        /\ locking[g].kind = "none" <=> locking[g].step = "idle"
        /\ locking[g].reference <= nextID
        /\ locking[g].step # "idle" => Ready(g) /\ locking[g].lockID = ExtractLockID(g)

\* An unlock that finds the lock gone will fail.
InVain(g) == locking[g].kind = "unlock" /\ locking[g].step \in {"sent", "error"} /\ ~Owns(g)

\* Nobody has been, or will be, left in doubt.
Certain ==
    /\ unsure = {} /\ ~forced
    /\ \A g \in Goroutines : locking[g].kind # "force" /\ ~InVain(g)

\* The member has carried the request of g out.
Done(g) == locking[g].step = "granted" \/ (locking[g].step = "sent" /\ Carried(locking[g]))

\* What the member's count is for g.
Expected(g) ==
    held[g] + (IF ~Done(g) THEN 0 ELSE IF locking[g].kind = "unlock" THEN -1 ELSE 1)

\* The count of g's lock is as expected; a request that was carried out is the last
\* one of the lock.
BalancedOf(g) ==
    /\ held[g] >= 0
    /\ IF Owns(g) THEN keyLock.count = Expected(g) ELSE Expected(g) = 0
    /\ Done(g) /\ locking[g].kind # "unlock" => Owns(g)
    /\ Done(g) /\ Owns(g) => keyLock.reference = locking[g].reference
    /\ locking[g].step = "refused" => ~Owns(g)
    /\ locking[g].step = "error" => locking[g].kind = "unlock" /\ ~Owns(g)

\* The inductive invariant.
LockInv == LockTyped /\ Calling /\ (Certain => \A g \in Goroutines : BalancedOf(g))

\* The IDs tell goroutines apart.
LEMMA IdsDiffer ==
  ASSUME LockTyped, NEW g \in Goroutines, NEW h \in Goroutines, Ready(g), Ready(h),
         ExtractLockID(g) = ExtractLockID(h)
  PROVE  g = h
<1>1. \A x \in Goroutines : ContextOf[x] # NoContext => ContextOf[x] \in LockContexts
  BY DEF LockContexts
<1>2. ContextOf[g] = ContextOf[h]
  BY <1>1 DEF LockTyped, Ready, ExtractLockID, defaultLockID
<1> QED
  BY <1>2, LocksAssumption

\* A lock ID was drawn from the generator, or is defaultLockID.
LEMMA IdTyped ==
  ASSUME LockTyped, NEW g \in Goroutines
  PROVE  ExtractLockID(g) \in 0..nextID /\ ExtractLockID(g) # -1
<1>1. ContextOf[g] # NoContext => ContextOf[g] \in LockContexts
  BY DEF LockContexts
<1> QED
  BY <1>1 DEF LockTyped, ExtractLockID, defaultLockID

\* Nobody has the lock at first.
LEMMA LockInitInv == LockInit => LockInv
<1> SUFFICES ASSUME LockInit PROVE LockInv
  OBVIOUS
<1>1. LockTyped
  <2>1. /\ nextID \in Nat /\ lockIDOf \in [LockContexts -> 0..nextID]
        /\ \A c \in LockContexts : lockIDOf[c] = 0
    BY DEF LockInit
  <2>2. /\ keyLock = Free /\ keyLock.owner = -1
        /\ keyLock \in [owner : -1..nextID, count : Nat, reference : 0..nextID]
    BY DEF LockInit, Free
  <2>3. /\ locking \in [Goroutines -> [kind : {"none", "lock", "try", "unlock", "force"},
                                       step : {"idle", "sent", "granted", "refused", "error"},
                                       lockID : Nat, reference : Nat]]
    BY DEF LockInit, NoLockCall
  <2>4. held \in [Goroutines -> Int] /\ unsure \subseteq Goroutines
    BY DEF LockInit
  <2>5. forced \in BOOLEAN
    BY DEF LockInit
  <2> QED
    BY <2>1, <2>2, <2>3, <2>4, <2>5 DEF LockTyped
<1>2. Calling
  BY DEF LockInit, Calling, NoLockCall
<1>3. ASSUME NEW g \in Goroutines PROVE BalancedOf(g)
  <2>1. ~Owns(g)
    BY <1>1, IdTyped DEF LockInit, Owns, Free
  <2>2. ~Done(g) /\ locking[g].step = "idle"
    BY DEF LockInit, Done, NoLockCall
  <2> QED
    BY <2>1, <2>2 DEF LockInit, BalancedOf, Expected
<1> QED
  BY <1>1, <1>2, <1>3 DEF LockInv

\* The lock IDs of steps that make no context stay.
LEMMA IdsStay ==
  ASSUME lockIDOf' = lockIDOf
  PROVE  \A g : /\ Ready(g)' <=> Ready(g)
                /\ ExtractLockID(g)' = ExtractLockID(g)
                /\ keyLock' = keyLock => (Owns(g)' <=> Owns(g))
  BY DEF Ready, ExtractLockID, Owns

\* A new context gets an ID that nobody has.
LEMMA NewContextStep ==
  ASSUME LockInv, NEW c \in LockContexts, NewLockContext(c)
  PROVE  LockInv'
<1>1. /\ lockIDOf[c] = 0 /\ nextID' = nextID + 1 /\ lockIDOf' = [lockIDOf EXCEPT ![c] = nextID + 1]
      /\ UNCHANGED <<locking, keyLock, held, unsure, forced>>
  BY DEF NewLockContext
<1>2. LockTyped /\ Calling
  BY DEF LockInv
<1>3. /\ nextID \in Nat /\ lockIDOf \in [LockContexts -> 0..nextID]
      /\ keyLock.owner \in -1..nextID
  BY <1>2 DEF LockTyped
<1>4. ASSUME NEW g \in Goroutines
      PROVE  /\ Ready(g) => Ready(g)' /\ ExtractLockID(g)' = ExtractLockID(g)
             /\ Owns(g)' <=> Owns(g)
  <2>1. ContextOf[g] # NoContext => ContextOf[g] \in LockContexts
    BY DEF LockContexts
  <2>2. CASE ContextOf[g] = c /\ ContextOf[g] # NoContext
    <3>1. ~Ready(g) /\ ExtractLockID(g)' = nextID + 1
      BY <1>1, <1>3, <2>1, <2>2 DEF Ready, ExtractLockID
    <3> QED
      BY <1>1, <1>3, <3>1 DEF Owns
  <2>3. CASE ~(ContextOf[g] = c /\ ContextOf[g] # NoContext)
    <3>1. (Ready(g)' <=> Ready(g)) /\ ExtractLockID(g)' = ExtractLockID(g)
      BY <1>1, <1>3, <2>1, <2>3 DEF Ready, ExtractLockID
    <3> QED
      BY <1>1, <3>1 DEF Owns
  <2> QED
    BY <2>2, <2>3
<1>5. LockTyped'
  <2>1. nextID' \in Nat /\ lockIDOf' \in [LockContexts -> 0..nextID']
    BY <1>1, <1>3
  <2>2. \A a, d \in LockContexts : lockIDOf'[a] = lockIDOf'[d] => a = d \/ lockIDOf'[a] = 0
    <3>1. \A a \in LockContexts : lockIDOf[a] # nextID + 1
      BY <1>3
    <3> QED
      BY <1>1, <1>2, <1>3, <3>1 DEF LockTyped
  <2>3. keyLock' \in [owner : -1..nextID', count : Nat, reference : 0..nextID']
    BY <1>1, <1>2, <1>3 DEF LockTyped
  <2>4. keyLock'.owner # -1 => \E g \in Goroutines : Owns(g)'
    BY <1>1, <1>2, <1>4 DEF LockTyped
  <2> QED
    BY <1>1, <1>2, <2>1, <2>2, <2>3, <2>4 DEF LockTyped, Free
<1>6. Calling'
  <2>1. \A g \in Goroutines : locking[g].reference \in Nat /\ locking[g].reference <= nextID
    BY <1>2 DEF LockTyped, Calling
  <2>2. \A g \in Goroutines : locking[g].reference <= nextID'
    BY <1>1, <1>3, <2>1
  <2> QED
    BY <1>1, <1>2, <1>4, <2>2 DEF Calling, NoLockCall
<1>7. ASSUME Certain', NEW g \in Goroutines PROVE BalancedOf(g)'
  <2>1. \A h \in Goroutines : InVain(h)' <=> InVain(h)
    BY <1>1, <1>4 DEF InVain
  <2>2. Certain
    BY <1>1, <1>7, <2>1 DEF Certain
  <2>3. BalancedOf(g)
    BY <2>2 DEF LockInv
  <2>4. (Done(g)' <=> Done(g)) /\ Expected(g)' = Expected(g)
    BY <1>1 DEF Done, Carried, Expected
  <2> QED
    BY <1>1, <1>4, <2>3, <2>4 DEF BalancedOf
<1> QED
  BY <1>5, <1>6, <1>7 DEF LockInv

\* Steps that leave the member's lock alone.
LEMMA KeyLockStays ==
  ASSUME LockTyped, UNCHANGED <<lockIDOf, keyLock>>, nextID' \in Nat, nextID' >= nextID,
         held' \in [Goroutines -> Int], unsure' \subseteq Goroutines, forced' \in BOOLEAN,
         locking' \in [Goroutines -> [kind : {"none", "lock", "try", "unlock", "force"},
                                      step : {"idle", "sent", "granted", "refused", "error"},
                                      lockID : Nat, reference : Nat]]
  PROVE  LockTyped'
<1>1. nextID \in Nat /\ lockIDOf' \in [LockContexts -> 0..nextID']
  BY DEF LockTyped
<1>2. keyLock' \in [owner : -1..nextID', count : Nat, reference : 0..nextID']
  BY <1>1 DEF LockTyped
<1>3. keyLock'.owner # -1 => keyLock'.count >= 1 /\ \E g \in Goroutines : Owns(g)'
  BY IdsStay DEF LockTyped
<1>4. keyLock'.owner = -1 => keyLock' = Free
  BY DEF LockTyped
<1>5. \A c, d \in LockContexts : lockIDOf'[c] = lockIDOf'[d] => c = d \/ lockIDOf'[c] = 0
  BY DEF LockTyped
<1> QED
  BY <1>1, <1>2, <1>3, <1>4, <1>5 DEF LockTyped, Free

\* ... and only change the request of g.
LEMMA OthersStay ==
  ASSUME LockInv, NEW g \in Goroutines, UNCHANGED <<lockIDOf, keyLock>>,
         \A h \in Goroutines \ {g} : locking'[h] = locking[h] /\ held'[h] = held[h],
         unsure \subseteq unsure', forced => forced',
         Certain', locking[g].kind # "force", ~InVain(g)
  PROVE  Certain /\ BalancedOf(g) /\ \A h \in Goroutines \ {g} : BalancedOf(h)'
<1>1. \A h \in Goroutines \ {g} : InVain(h)' <=> InVain(h)
  BY IdsStay DEF InVain
<1>2. Certain
  BY <1>1 DEF Certain
<1>3. ASSUME NEW h \in Goroutines \ {g} PROVE BalancedOf(h)'
  <2>1. BalancedOf(h)
    BY <1>2 DEF LockInv
  <2>2. (Done(h)' <=> Done(h)) /\ Expected(h)' = Expected(h)
    BY DEF Done, Carried, Expected
  <2> QED
    BY <2>1, <2>2, IdsStay DEF BalancedOf
<1> QED
  BY <1>2, <1>3 DEF LockInv

\* A call draws a reference that the lock cannot have.
LEMMA LockCallStep ==
  ASSUME LockInv, NEW g \in Goroutines, NEW kind \in {"lock", "try", "unlock", "force"}, LockCall(g, kind)
  PROVE  LockInv'
<1> DEFINE r == [kind |-> kind, step |-> "sent", lockID |-> ExtractLockID(g), reference |-> nextID + 1]
<1>1. /\ locking[g] = NoLockCall /\ Ready(g) /\ nextID' = nextID + 1
      /\ kind = "unlock" => held[g] > 0 \/ g \in unsure
      /\ locking' = [locking EXCEPT ![g] = r]
      /\ UNCHANGED <<lockIDOf, keyLock, held, unsure, forced>>
  BY DEF LockCall, Ready
<1>2. LockTyped /\ Calling
  BY DEF LockInv
<1>3. ExtractLockID(g) \in Nat /\ nextID \in Nat /\ keyLock.reference \in 0..nextID
  BY <1>2, IdTyped DEF LockTyped
<1>4. locking'[g] = r /\ \A h \in Goroutines \ {g} : locking'[h] = locking[h]
  BY <1>1, <1>2 DEF LockTyped
<1>5. LockTyped'
  <2>1. locking' \in [Goroutines -> [kind : {"none", "lock", "try", "unlock", "force"},
                                     step : {"idle", "sent", "granted", "refused", "error"},
                                     lockID : Nat, reference : Nat]]
    BY <1>1, <1>2, <1>3 DEF LockTyped
  <2>2. held' \in [Goroutines -> Int] /\ unsure' \subseteq Goroutines /\ forced' \in BOOLEAN
        /\ nextID' \in Nat /\ nextID' >= nextID
    BY <1>1, <1>2 DEF LockTyped
  <2> QED
    BY <1>1, <1>2, <2>1, <2>2, KeyLockStays
<1>6. Calling'
  <2>1. \A h \in Goroutines : locking[h].reference \in Nat /\ locking[h].reference <= nextID
    BY <1>2 DEF LockTyped, Calling
  <2>2. \A h \in Goroutines : locking'[h].reference <= nextID'
    BY <1>1, <1>3, <1>4, <2>1
  <2> QED
    BY <1>1, <1>2, <1>4, <2>2, IdsStay DEF Calling, NoLockCall
<1>7. ASSUME Certain' PROVE \A h \in Goroutines : BalancedOf(h)'
  <2>1. locking[g].kind = "none" /\ locking[g].step = "idle" /\ ~InVain(g)
    BY <1>1 DEF NoLockCall, InVain
  <2>2. Certain /\ BalancedOf(g) /\ \A h \in Goroutines \ {g} : BalancedOf(h)'
    BY <1>1, <1>4, <1>7, <2>1, OthersStay
  <2>3. ~Done(g) /\ ~Done(g)'
    BY <1>1, <1>3, <1>4, <2>1 DEF Done, Carried
  <2>4. BalancedOf(g)'
    BY <1>1, <1>4, <2>2, <2>3, IdsStay DEF BalancedOf, Expected
  <2> QED
    BY <2>2, <2>4
<1> QED
  BY <1>5, <1>6, <1>7 DEF LockInv

\* A call that gives up leaves its goroutine in doubt.
LEMMA GivesUpStep ==
  ASSUME LockInv, NEW g \in Goroutines, GivesUp(g)
  PROVE  LockInv'
<1>1. /\ locking' = [locking EXCEPT ![g] = NoLockCall] /\ unsure' = unsure \cup {g} /\ forced' \in BOOLEAN
      /\ UNCHANGED <<nextID, lockIDOf, keyLock, held>>
  BY DEF GivesUp
<1>2. LockTyped /\ Calling
  BY DEF LockInv
<1>3. LockTyped'
  <2>1. /\ locking' \in [Goroutines -> [kind : {"none", "lock", "try", "unlock", "force"},
                                        step : {"idle", "sent", "granted", "refused", "error"},
                                        lockID : Nat, reference : Nat]]
    BY <1>1, <1>2 DEF LockTyped, NoLockCall
  <2>2. held' \in [Goroutines -> Int] /\ unsure' \subseteq Goroutines /\ nextID' \in Nat /\ nextID' >= nextID
    BY <1>1, <1>2 DEF LockTyped
  <2> QED
    BY <1>1, <1>2, <2>1, <2>2, KeyLockStays
<1>4. Calling'
  <2>1. locking'[g] = NoLockCall /\ \A h \in Goroutines \ {g} : locking'[h] = locking[h]
    BY <1>1, <1>2 DEF LockTyped
  <2>2. nextID \in Nat
    BY <1>2 DEF LockTyped
  <2> QED
    BY <1>1, <1>2, <2>1, <2>2, IdsStay DEF Calling, NoLockCall
<1>5. ~Certain'
  BY <1>1 DEF Certain
<1> QED
  BY <1>3, <1>4, <1>5 DEF LockInv

\* A request that is sent again is carried out, or not, as before.
LEMMA DropStep ==
  ASSUME LockInv, NEW g \in Goroutines, ConnectionDrops(g)
  PROVE  LockInv'
<1> DEFINE r == locking[g]
<1>1. /\ locking' = [locking EXCEPT ![g] = [r EXCEPT !.step = "sent"]]
      /\ r.step # "idle"
      /\ UNCHANGED <<nextID, lockIDOf, keyLock, held, unsure, forced>>
  BY DEF ConnectionDrops, RetryRequest
<1>2. LockTyped /\ Calling
  BY DEF LockInv
<1>3. /\ locking'[g] = [kind |-> r.kind, step |-> "sent", lockID |-> r.lockID, reference |-> r.reference]
      /\ \A h \in Goroutines \ {g} : locking'[h] = locking[h]
  BY <1>1, <1>2 DEF LockTyped
<1>4. LockTyped'
  <2>1. /\ locking' \in [Goroutines -> [kind : {"none", "lock", "try", "unlock", "force"},
                                        step : {"idle", "sent", "granted", "refused", "error"},
                                        lockID : Nat, reference : Nat]]
    BY <1>1, <1>2 DEF LockTyped
  <2>2. held' \in [Goroutines -> Int] /\ unsure' \subseteq Goroutines /\ forced' \in BOOLEAN
        /\ nextID' \in Nat /\ nextID' >= nextID
    BY <1>1, <1>2 DEF LockTyped
  <2> QED
    BY <1>1, <1>2, <2>1, <2>2, KeyLockStays
<1>5. Calling'
  BY <1>1, <1>2, <1>3, IdsStay DEF Calling, NoLockCall
<1>6. ASSUME Certain' PROVE \A h \in Goroutines : BalancedOf(h)'
  <2>1. r.kind # "force" /\ ~InVain(g) /\ (r.kind = "unlock" => Owns(g))
    BY <1>1, <1>3, <1>6, IdsStay DEF Certain, InVain
  <2>2. BalancedOf(g) /\ \A h \in Goroutines \ {g} : BalancedOf(h)'
    BY <1>1, <1>3, <1>6, <2>1, OthersStay
  <2>3. Owns(g) => keyLock.owner = r.lockID
    BY <1>1, <1>2 DEF Owns, Calling
  <2>4. Done(g)' <=> Carried(r)
    BY <1>1, <1>3 DEF Done, Carried
  <2>5. Carried(r) => Owns(g)
    BY <1>1, <1>2 DEF Carried, Owns, Calling
  <2>6. Done(g) <=> Carried(r)
    <3>1. CASE r.step = "granted"
      BY <2>1, <2>2, <2>3, <3>1 DEF Done, Carried, BalancedOf
    <3>2. CASE r.step = "refused" \/ r.step = "error"
      BY <2>2, <2>5, <3>2 DEF Done, BalancedOf
    <3>3. CASE r.step = "sent"
      BY <3>3 DEF Done
    <3> QED
      BY <1>1, <1>2, <3>1, <3>2, <3>3 DEF LockTyped
  <2>7. BalancedOf(g)'
    BY <1>1, <1>3, <2>2, <2>4, <2>6, IdsStay DEF BalancedOf, Expected
  <2> QED
    BY <2>2, <2>7
<1> QED
  BY <1>4, <1>5, <1>6 DEF LockInv

\* A call that returns tells what the member has done.
LEMMA ReturnStep ==
  ASSUME LockInv, NEW g \in Goroutines, LockCallReturns(g)
  PROVE  LockInv'
<1> DEFINE r == locking[g]
<1>1. /\ r.step \in {"granted", "refused", "error"}
      /\ locking' = [locking EXCEPT ![g] = NoLockCall]
      /\ held' = [held EXCEPT ![g] =
             IF r.step # "granted" \/ r.kind = "force" THEN @ ELSE IF r.kind = "unlock" THEN @ - 1 ELSE @ + 1]
      /\ unsure' = IF r.step = "error" THEN unsure \cup {g} ELSE unsure
      /\ UNCHANGED <<nextID, lockIDOf, keyLock>>
  BY DEF LockCallReturns
<1>2. forced' = (forced \/ r.kind = "force")
  BY DEF LockCallReturns
<1>3. LockTyped /\ Calling
  BY DEF LockInv
<1>4. /\ locking'[g] = NoLockCall /\ \A h \in Goroutines \ {g} : locking'[h] = locking[h] /\ held'[h] = held[h]
      /\ held'[g] = IF r.step # "granted" \/ r.kind = "force" THEN held[g]
                    ELSE IF r.kind = "unlock" THEN held[g] - 1 ELSE held[g] + 1
      /\ held[g] \in Int
  BY <1>1, <1>3 DEF LockTyped
<1>5. LockTyped'
  <2>1. locking' \in [Goroutines -> [kind : {"none", "lock", "try", "unlock", "force"},
                                     step : {"idle", "sent", "granted", "refused", "error"},
                                     lockID : Nat, reference : Nat]]
    BY <1>1, <1>3 DEF LockTyped, NoLockCall
  <2>2. held' \in [Goroutines -> Int] /\ unsure' \subseteq Goroutines /\ nextID' \in Nat /\ nextID' >= nextID
    BY <1>1, <1>3 DEF LockTyped
  <2>3. forced' \in BOOLEAN
    BY <1>2
  <2> QED
    BY <1>1, <1>3, <2>1, <2>2, <2>3, KeyLockStays
<1>6. Calling'
  <2>1. nextID \in Nat
    BY <1>3 DEF LockTyped
  <2> QED
    BY <1>1, <1>3, <1>4, <2>1, IdsStay DEF Calling, NoLockCall
<1>7. ASSUME Certain' PROVE \A h \in Goroutines : BalancedOf(h)'
  <2>1. r.step # "error" /\ r.kind # "force" /\ (forced => forced') /\ unsure \subseteq unsure'
    BY <1>1, <1>2, <1>7 DEF Certain
  <2>2. ~InVain(g)
    BY <1>1, <2>1 DEF InVain
  <2>3. BalancedOf(g) /\ \A h \in Goroutines \ {g} : BalancedOf(h)'
    BY <1>1, <1>4, <1>7, <2>1, <2>2, OthersStay
  <2>4. ~Done(g)' /\ locking'[g].step = "idle"
    BY <1>4 DEF Done, NoLockCall
  <2>5. Expected(g)' = held'[g]
    BY <1>4, <2>4 DEF Expected
  <2>6. held'[g] = Expected(g)
    <3>1. Done(g) <=> r.step = "granted"
      BY <1>1 DEF Done
    <3> QED
      BY <1>4, <2>1, <3>1 DEF Expected
  <2>7. held'[g] >= 0
    BY <1>3, <2>3, <2>6 DEF BalancedOf, LockTyped
  <2>8. BalancedOf(g)'
    BY <1>1, <2>3, <2>4, <2>5, <2>6, <2>7, IdsStay DEF BalancedOf
  <2> QED
    BY <2>3, <2>8
<1> QED
  BY <1>5, <1>6, <1>7 DEF LockInv

\* The member grants g's request, or takes the lock from it: the others do not
\* have it, before and after.
LEMMA OthersHaveNot ==
  ASSUME LockInv, LockTyped', NEW g \in Goroutines, lockIDOf' = lockIDOf, Ready(g),
         UNCHANGED <<held, unsure, forced>>,
         keyLock = Free \/ Owns(g), keyLock' = Free \/ Owns(g)',
         \A h \in Goroutines \ {g} : locking'[h] = locking[h],
         Certain', locking[g].kind # "force", ~InVain(g)
  PROVE  BalancedOf(g) /\ \A h \in Goroutines \ {g} : BalancedOf(h)'
<1>1. ASSUME NEW h \in Goroutines \ {g} PROVE ~Owns(h) /\ ~Owns(h)'
  <2>1. LockTyped /\ LockTyped'
    BY DEF LockInv
  <2>2. ExtractLockID(h) # -1 /\ ExtractLockID(h)' = ExtractLockID(h) /\ (Ready(h)' <=> Ready(h))
    BY <2>1, IdTyped, IdsStay
  <2>3. Ready(h) => ExtractLockID(h) # ExtractLockID(g)
    BY <2>1, IdsDiffer
  <2>4. ExtractLockID(g)' = ExtractLockID(g)
    BY IdsStay
  <2> QED
    BY <2>2, <2>3, <2>4 DEF Owns, Free
<1>2. \A h \in Goroutines \ {g} : InVain(h)' <=> InVain(h)
  BY <1>1 DEF InVain
<1>3. Certain
  BY <1>2 DEF Certain
<1>4. ASSUME NEW h \in Goroutines \ {g} PROVE BalancedOf(h)'
  <2>1. BalancedOf(h) /\ Calling /\ LockTyped
    BY <1>3 DEF LockInv
  <2>2. ~Owns(h) /\ ~Owns(h)'
    BY <1>1
  <2>3. locking[h].step = "sent" => ~Carried(locking[h]) /\ ~Carried(locking[h])'
    BY <2>1, <2>2, IdsStay DEF Carried, Owns, Calling
  <2>4. (Done(h)' <=> Done(h)) /\ Expected(h)' = Expected(h)
    BY <2>3 DEF Done, Carried, Expected
  <2> QED
    BY <2>1, <2>2, <2>4 DEF BalancedOf
<1> QED
  BY <1>3, <1>4 DEF LockInv

\* What an answer does to the request and to the lock.
Answered(g, step) == locking' = [locking EXCEPT ![g].step = step]

\* An answer changes the step of the request.
LEMMA AnswerTyped ==
  ASSUME LockInv, NEW g \in Goroutines, NEW step \in {"granted", "refused", "error"}, Answered(g, step),
         locking[g].step = "sent", UNCHANGED <<nextID, lockIDOf, held, unsure, forced>>
  PROVE  /\ locking'[g] = [kind |-> locking[g].kind, step |-> step,
                           lockID |-> locking[g].lockID, reference |-> locking[g].reference]
         /\ \A h \in Goroutines \ {g} : locking'[h] = locking[h]
         /\ locking' \in [Goroutines -> [kind : {"none", "lock", "try", "unlock", "force"},
                                         step : {"idle", "sent", "granted", "refused", "error"},
                                         lockID : Nat, reference : Nat]]
         /\ Calling'
         /\ Ready(g) /\ locking[g].lockID = ExtractLockID(g) /\ locking[g].reference \in 0..nextID
         /\ locking[g].kind # "none"
<1>1. LockTyped /\ Calling
  BY DEF LockInv
<1>2. /\ locking'[g] = [kind |-> locking[g].kind, step |-> step,
                        lockID |-> locking[g].lockID, reference |-> locking[g].reference]
      /\ \A h \in Goroutines \ {g} : locking'[h] = locking[h]
      /\ locking' \in [Goroutines -> [kind : {"none", "lock", "try", "unlock", "force"},
                                      step : {"idle", "sent", "granted", "refused", "error"},
                                      lockID : Nat, reference : Nat]]
  BY <1>1 DEF LockTyped, Answered
<1>3. /\ Ready(g) /\ locking[g].lockID = ExtractLockID(g) /\ locking[g].reference \in 0..nextID
      /\ locking[g].kind # "none"
  BY <1>1 DEF LockTyped, Calling
<1>4. Calling'
  BY <1>1, <1>2, IdsStay DEF Calling, NoLockCall
<1> QED
  BY <1>2, <1>3, <1>4

\* The lock of a granted request is typed and owned.
LEMMA LockChanges ==
  ASSUME LockInv, NEW g \in Goroutines, Ready(g), UNCHANGED <<nextID, lockIDOf, held, unsure, forced>>,
         locking' \in [Goroutines -> [kind : {"none", "lock", "try", "unlock", "force"},
                                      step : {"idle", "sent", "granted", "refused", "error"},
                                      lockID : Nat, reference : Nat]],
         \/ keyLock' = Free
         \/ \E n \in Nat \ {0}, ref \in 0..nextID :
                keyLock' = [owner |-> ExtractLockID(g), count |-> n, reference |-> ref]
  PROVE  LockTyped' /\ (keyLock' = Free \/ Owns(g)')
<1>1. LockTyped /\ nextID \in Nat
  BY DEF LockInv, LockTyped
<1>2. ExtractLockID(g) \in 0..nextID /\ ExtractLockID(g)' = ExtractLockID(g) /\ Ready(g)'
  BY <1>1, IdTyped, IdsStay
<1>3. /\ lockIDOf' \in [LockContexts -> 0..nextID'] /\ nextID' \in Nat
      /\ \A c, d \in LockContexts : lockIDOf'[c] = lockIDOf'[d] => c = d \/ lockIDOf'[c] = 0
      /\ held' \in [Goroutines -> Int] /\ unsure' \subseteq Goroutines /\ forced' \in BOOLEAN
  BY <1>1 DEF LockTyped
<1>4. CASE keyLock' = Free
  <2>1. keyLock' \in [owner : -1..nextID', count : Nat, reference : 0..nextID'] /\ keyLock'.owner = -1
    BY <1>1, <1>4 DEF Free
  <2> QED
    BY <1>3, <1>4, <2>1 DEF LockTyped, Free
<1>5. ASSUME NEW n \in Nat \ {0}, NEW ref \in 0..nextID,
             keyLock' = [owner |-> ExtractLockID(g), count |-> n, reference |-> ref]
      PROVE  LockTyped' /\ Owns(g)'
  <2>1. /\ keyLock' \in [owner : -1..nextID', count : Nat, reference : 0..nextID']
        /\ keyLock'.owner # -1 /\ keyLock'.count >= 1
    BY <1>1, <1>2, <1>5
  <2>2. Owns(g)'
    BY <1>2, <1>5 DEF Owns
  <2> QED
    BY <1>3, <2>1, <2>2 DEF LockTyped, Free
<1> QED
  BY <1>4, <1>5

\* The member's answer: the same request is carried out once.
LEMMA AnswerStep ==
  ASSUME LockInv, NEW g \in Goroutines, MemberAnswers(g)
  PROVE  LockInv'
<1> DEFINE r == locking[g]
<1>0. r.step = "sent" /\ UNCHANGED <<nextID, lockIDOf, held, unsure, forced>> /\ LockTyped /\ Calling
  BY DEF MemberAnswers, LockInv
<1>1. keyLock.count \in Nat /\ nextID \in Nat /\ keyLock.reference \in 0..nextID
      /\ keyLock = [owner |-> keyLock.owner, count |-> keyLock.count, reference |-> keyLock.reference]
      /\ (keyLock.owner # -1 => keyLock.count >= 1) /\ (keyLock.owner = -1 => keyLock = Free)
  BY <1>0 DEF LockTyped
<1>2. ASSUME NEW step \in {"granted", "refused", "error"}, Answered(g, step), keyLock' = keyLock,
             Certain' => r.kind # "force" /\ ~InVain(g) /\ (BalancedOf(g) => BalancedOf(g)')
      PROVE  LockInv'
  <2>1. /\ Calling' /\ \A h \in Goroutines \ {g} : locking'[h] = locking[h]
        /\ locking' \in [Goroutines -> [kind : {"none", "lock", "try", "unlock", "force"},
                                        step : {"idle", "sent", "granted", "refused", "error"},
                                        lockID : Nat, reference : Nat]]
    BY <1>0, <1>2, AnswerTyped
  <2>2. LockTyped'
    <3>1. held' \in [Goroutines -> Int] /\ unsure' \subseteq Goroutines /\ nextID' \in Nat /\ nextID' >= nextID
          /\ forced' \in BOOLEAN
      BY <1>0 DEF LockTyped
    <3> QED
      BY <1>0, <1>2, <2>1, <3>1, KeyLockStays
  <2>3. ASSUME Certain' PROVE \A h \in Goroutines : BalancedOf(h)'
    <3>1. BalancedOf(g) /\ \A h \in Goroutines \ {g} : BalancedOf(h)'
      BY <1>0, <1>2, <2>1, <2>3, OthersStay
    <3> QED
      BY <1>2, <2>3, <3>1
  <2> QED
    BY <2>1, <2>2, <2>3 DEF LockInv
<1>3. ASSUME NEW step \in {"granted", "refused", "error"}, Answered(g, step),
             keyLock = Free \/ Owns(g),
             \/ keyLock' = Free
             \/ \E n \in Nat \ {0}, ref \in 0..nextID :
                    keyLock' = [owner |-> ExtractLockID(g), count |-> n, reference |-> ref],
             Certain' => r.kind # "force" /\ ~InVain(g) /\ (BalancedOf(g) => BalancedOf(g)')
      PROVE  LockInv'
  <2>1. /\ Calling' /\ Ready(g) /\ \A h \in Goroutines \ {g} : locking'[h] = locking[h]
        /\ locking' \in [Goroutines -> [kind : {"none", "lock", "try", "unlock", "force"},
                                        step : {"idle", "sent", "granted", "refused", "error"},
                                        lockID : Nat, reference : Nat]]
    BY <1>0, <1>3, AnswerTyped
  <2>2. LockTyped' /\ (keyLock' = Free \/ Owns(g)')
    BY <1>0, <1>3, <2>1, LockChanges
  <2>3. ASSUME Certain' PROVE \A h \in Goroutines : BalancedOf(h)'
    <3>1. BalancedOf(g) /\ \A h \in Goroutines \ {g} : BalancedOf(h)'
      BY <1>0, <1>3, <2>1, <2>2, <2>3, OthersHaveNot
    <3> QED
      BY <1>3, <2>3, <3>1
  <2> QED
    BY <2>1, <2>2, <2>3 DEF LockInv
\* The request in the answer, and whether g has the lock.
<1>4. ASSUME NEW step \in {"granted", "refused", "error"}, Answered(g, step)
      PROVE  /\ locking'[g].kind = r.kind /\ locking'[g].step = step /\ locking'[g].reference = r.reference
             /\ Ready(g) /\ Ready(g)' /\ r.lockID = ExtractLockID(g) /\ r.lockID \in 0..nextID
             /\ ExtractLockID(g)' = ExtractLockID(g) /\ r.reference \in 0..nextID
             /\ Owns(g) <=> keyLock.owner = r.lockID
             /\ Owns(g)' <=> keyLock'.owner = r.lockID
             /\ held'[g] = held[g] /\ held[g] \in Int
  <2>1. /\ locking'[g].kind = r.kind /\ locking'[g].step = step /\ locking'[g].reference = r.reference
        /\ Ready(g) /\ r.lockID = ExtractLockID(g) /\ r.reference \in 0..nextID
    <3>1. /\ locking'[g] = [kind |-> r.kind, step |-> step, lockID |-> r.lockID, reference |-> r.reference]
          /\ Ready(g) /\ r.lockID = ExtractLockID(g) /\ r.reference \in 0..nextID
      BY <1>0, <1>4, AnswerTyped
    <3> QED
      BY <3>1
  <2>2. Ready(g)' /\ ExtractLockID(g)' = ExtractLockID(g) /\ ExtractLockID(g) \in 0..nextID
    BY <1>0, <2>1, IdsStay, IdTyped
  <2>3. held'[g] = held[g] /\ held[g] \in Int
    BY <1>0 DEF LockTyped
  <2> QED
    BY <2>1, <2>2, <2>3 DEF Owns
<1>5. CASE r.kind \in {"lock", "try"} /\ Grants(r) /\ keyLock' = AfterLock(r) /\ Answered(g, "granted")
  <2>1. CASE Carried(r)
    <3>1. keyLock' = keyLock /\ Done(g) /\ Done(g)' /\ Owns(g) /\ Owns(g)'
      BY <1>0, <1>4, <1>5, <2>1 DEF AfterLock, Done, Carried
    <3>2. Expected(g)' = Expected(g)
      BY <1>4, <1>5, <3>1 DEF Expected
    <3>3. BalancedOf(g) => BalancedOf(g)'
      BY <1>4, <1>5, <3>1, <3>2 DEF BalancedOf
    <3>4. r.kind # "force" /\ ~InVain(g)
      BY <1>5 DEF InVain
    <3> QED
      BY <1>2, <1>5, <3>1, <3>3, <3>4
  <2>2. CASE ~Carried(r)
    <3>1. keyLock' = [owner |-> r.lockID, count |-> keyLock.count + 1, reference |-> r.reference]
      BY <1>5, <2>2 DEF AfterLock
    <3>2. keyLock = Free \/ Owns(g)
      BY <1>4, <1>5 DEF Grants
    <3>3. Owns(g)' /\ Done(g)' /\ ~Done(g)
      BY <1>0, <1>4, <1>5, <2>2, <3>1 DEF Done
    <3>4. BalancedOf(g) => keyLock.count = held[g]
      <4>1. keyLock = Free => ~Owns(g) /\ keyLock.count = 0
        BY <1>4, <1>5 DEF Free
      <4>2. Expected(g) = held[g]
        BY <1>4, <1>5, <3>3 DEF Expected
      <4> QED
        BY <3>2, <4>1, <4>2 DEF BalancedOf
    <3>5. BalancedOf(g) => BalancedOf(g)'
      <4>1. Expected(g)' = held[g] + 1
        BY <1>4, <1>5, <3>3 DEF Expected
      <4>2. /\ held'[g] = held[g] /\ locking'[g].step = "granted" /\ locking'[g].reference = r.reference
        BY <1>4, <1>5
      <4>3. keyLock'.count = keyLock.count + 1 /\ keyLock'.reference = r.reference
        BY <3>1
      <4> QED
        BY <3>3, <3>4, <4>1, <4>2, <4>3 DEF BalancedOf
    <3>6. \E n \in Nat \ {0}, ref \in 0..nextID :
              keyLock' = [owner |-> ExtractLockID(g), count |-> n, reference |-> ref]
      <4>1. keyLock.count + 1 \in Nat \ {0}
        BY <1>1
      <4>2. r.lockID = ExtractLockID(g) /\ r.reference \in 0..nextID
        BY <1>4, <1>5
      <4> QED
        BY <3>1, <4>1, <4>2
    <3>7. r.kind # "force" /\ ~InVain(g)
      BY <1>5 DEF InVain
    <3> QED
      BY <1>3, <1>5, <3>2, <3>5, <3>6, <3>7
  <2> QED
    BY <2>1, <2>2
<1>6. CASE r.kind = "try" /\ ~Grants(r) /\ keyLock' = keyLock /\ Answered(g, "refused")
  <2>1. ~Owns(g) /\ ~Owns(g)' /\ ~Done(g) /\ ~Done(g)'
    BY <1>0, <1>4, <1>6 DEF Grants, Done, Carried
  <2>2. BalancedOf(g) => BalancedOf(g)'
    BY <1>4, <1>6, <2>1 DEF BalancedOf, Expected
  <2>3. r.kind # "force" /\ ~InVain(g)
    BY <1>6 DEF InVain
  <2> QED
    BY <1>2, <1>6, <2>2, <2>3
<1>7. CASE r.kind = "unlock" /\ keyLock.owner # r.lockID /\ keyLock' = AfterUnlock(r) /\ Answered(g, "error")
  <2>1. keyLock' = keyLock /\ ~Owns(g)'
    BY <1>4, <1>7 DEF AfterUnlock
  <2>2. InVain(g)'
    BY <1>4, <1>7, <2>1 DEF InVain
  <2>3. ~Certain'
    BY <2>2 DEF Certain
  <2> QED
    BY <1>2, <1>7, <2>1, <2>3
<1>8. CASE r.kind = "unlock" /\ keyLock.owner = r.lockID /\ keyLock' = AfterUnlock(r) /\ Answered(g, "granted")
  <2>1. Owns(g) /\ ~InVain(g) /\ r.kind # "force"
    BY <1>4, <1>8 DEF InVain
  <2>2. Done(g)'
    BY <1>4, <1>8 DEF Done
  <2>3. CASE Carried(r)
    <3>1. keyLock' = keyLock /\ Done(g) /\ Owns(g)'
      BY <1>0, <1>4, <1>8, <2>3 DEF AfterUnlock, Done
    <3>2. Expected(g)' = Expected(g)
      BY <1>4, <1>8, <2>2, <3>1 DEF Expected
    <3>3. BalancedOf(g) => BalancedOf(g)'
      BY <1>4, <1>8, <2>1, <2>2, <3>1, <3>2 DEF BalancedOf
    <3> QED
      BY <1>2, <1>8, <2>1, <3>1, <3>3
  <2>4. CASE ~Carried(r)
    <3>1. ~Done(g) /\ Expected(g)' = held[g] - 1 /\ Expected(g) = held[g]
      BY <1>0, <1>4, <1>8, <2>2, <2>4 DEF Done, Expected
    <3>2. BalancedOf(g) => keyLock.count = held[g]
      BY <2>1, <3>1 DEF BalancedOf
    <3>3. CASE keyLock.count = 1
      <4>1. keyLock' = Free
        BY <1>8, <2>4, <3>3 DEF AfterUnlock
      <4>2. ~Owns(g)'
        BY <1>4, <1>8, <4>1 DEF Free
      <4>3. BalancedOf(g) => BalancedOf(g)'
        BY <1>4, <1>8, <2>2, <3>1, <3>2, <3>3, <4>2 DEF BalancedOf
      <4> QED
        BY <1>3, <1>8, <2>1, <4>1, <4>3
    <3>4. CASE keyLock.count # 1
      <4>1. keyLock' = [owner |-> r.lockID, count |-> keyLock.count - 1, reference |-> r.reference]
        BY <1>1, <1>8, <2>4, <3>4 DEF AfterUnlock
      <4>2. Owns(g)' /\ keyLock.count - 1 \in Nat \ {0}
        BY <1>1, <1>4, <1>8, <3>4, <4>1
      <4>3. BalancedOf(g) => BalancedOf(g)'
        BY <1>4, <1>8, <2>2, <3>1, <3>2, <4>1, <4>2 DEF BalancedOf
      <4>4. \E n \in Nat \ {0}, ref \in 0..nextID :
                keyLock' = [owner |-> ExtractLockID(g), count |-> n, reference |-> ref]
        BY <1>4, <1>8, <4>1, <4>2
      <4> QED
        BY <1>3, <1>8, <2>1, <4>3, <4>4
    <3> QED
      BY <3>3, <3>4
  <2> QED
    BY <2>3, <2>4
<1>9. CASE r.kind = "force" /\ keyLock' = Free /\ Answered(g, "granted")
  <2>1. ~Certain'
    BY <1>4, <1>9 DEF Certain
  <2>2. /\ Calling' /\ Ready(g)
        /\ locking' \in [Goroutines -> [kind : {"none", "lock", "try", "unlock", "force"},
                                        step : {"idle", "sent", "granted", "refused", "error"},
                                        lockID : Nat, reference : Nat]]
    BY <1>0, <1>9, AnswerTyped
  <2>3. LockTyped'
    BY <1>0, <1>9, <2>2, LockChanges
  <2> QED
    BY <2>1, <2>2, <2>3 DEF LockInv
<1> QED
  BY <1>5, <1>6, <1>7, <1>8, <1>9 DEF MemberAnswers, Answered

\* Every step preserves the invariant.
LEMMA LockStepInv == LockInv /\ [LockNext]_lockVars => LockInv'
<1> SUFFICES ASSUME LockInv, [LockNext]_lockVars PROVE LockInv'
  OBVIOUS
<1>1. CASE UNCHANGED lockVars
  BY <1>1 DEF lockVars, LockInv, LockTyped, Calling, Certain, InVain, BalancedOf, Expected, Done, Carried, Owns, Ready,
              ExtractLockID, Free, NoLockCall
<1> QED
  BY <1>1, NewContextStep, LockCallStep, AnswerStep, DropStep, GivesUpStep, ReturnStep DEF LockNext

-----------------------------------------------------------------------------
\* A sum with at most one term.
LEMMA OneTerm ==
  ASSUME NEW S, IsFiniteSet(S), NEW h, NEW c \in Nat, \A g \in S : held[g] = IF g = h THEN c ELSE 0
  PROVE  CountOf(S) = IF h \in S THEN c ELSE 0
<1> DEFINE Pick(s) == CHOOSE x \in s : TRUE
           Is(f) == f = [s \in SUBSET S |-> IF s = {} THEN 0 ELSE held[Pick(s)] + f[s \ {Pick(s)}]]
           iter == CHOOSE f : Is(f)
           Sum(s) == IF h \in s THEN c ELSE 0
<1>1. CountOf(S) = iter[S]
  BY DEF CountOf, FoldSet, MapThenFoldSet
<1>2. ASSUME NEW s \in SUBSET S, s # {}
      PROVE  Pick(s) \in s /\ s \ {Pick(s)} \in SUBSET S /\ Sum(s) = held[Pick(s)] + Sum(s \ {Pick(s)})
  <2>1. Pick(s) \in s
    BY <1>2
  <2> DEFINE x == Pick(s)
  <2> HIDE DEF Pick
  <2>2. x \in S /\ held[x] = IF x = h THEN c ELSE 0
    BY <2>1
  <2> HIDE DEF x
  <2>3. x \in s
    BY <2>1 DEF x
  <2>4. Sum(s) = held[x] + Sum(s \ {x})
    BY <2>2, <2>3
  <2> QED
    BY <2>3, <2>4 DEF x
<1> HIDE DEF Pick
<1>3. Is([s \in SUBSET S |-> Sum(s)])
  <2> DEFINE f == [s \in SUBSET S |-> Sum(s)]
  <2>1. ASSUME NEW s \in SUBSET S PROVE f[s] = IF s = {} THEN 0 ELSE held[Pick(s)] + f[s \ {Pick(s)}]
    <3>1. CASE s = {}
      BY <3>1
    <3>2. CASE s # {}
      <4>1. s \ {Pick(s)} \in SUBSET S /\ Sum(s) = held[Pick(s)] + Sum(s \ {Pick(s)})
        BY <1>2, <3>2
      <4>2. f[s] = Sum(s) /\ f[s \ {Pick(s)}] = Sum(s \ {Pick(s)})
        BY <4>1
      <4> QED
        BY <3>2, <4>1, <4>2
    <3> QED
      BY <3>1, <3>2
  <2>2. f = [s \in SUBSET S |-> f[s]]
    OBVIOUS
  <2> HIDE DEF f
  <2>3. Is(f)
    BY <2>1, <2>2
  <2> QED
    BY <2>3 DEF f
<1>4. Is(iter)
  BY <1>3
<1> HIDE DEF iter, Sum
<1>5. \A s \in SUBSET S : iter[s] = IF s = {} THEN 0 ELSE held[Pick(s)] + iter[s \ {Pick(s)}]
  BY <1>4
<1> DEFINE Sums == {n \in Nat : \A s \in SUBSET S : Cardinality(s) = n => iter[s] = Sum(s)}
<1>6. 0 \in Sums
  <2>1. ASSUME NEW s \in SUBSET S, Cardinality(s) = 0 PROVE iter[s] = Sum(s)
    <3>1. s = {}
      BY <2>1, FS_Subset, FS_EmptySet
    <3> QED
      BY <1>5, <3>1 DEF Sum
  <2> QED
    BY <2>1
<1>7. ASSUME NEW n \in Nat, n \in Sums PROVE n + 1 \in Sums
  <2>1. ASSUME NEW s \in SUBSET S, Cardinality(s) = n + 1 PROVE iter[s] = Sum(s)
    <3>1. IsFiniteSet(s) /\ s # {}
      BY <2>1, FS_Subset, FS_EmptySet
    <3>2. Pick(s) \in s /\ s \ {Pick(s)} \in SUBSET S /\ Sum(s) = held[Pick(s)] + Sum(s \ {Pick(s)})
      BY <1>2, <3>1
    <3>3. Cardinality(s \ {Pick(s)}) = n
      <4>1. Cardinality(s \ {Pick(s)}) = Cardinality(s) - 1
        BY <3>1, <3>2, FS_RemoveElement
      <4> QED
        BY <2>1, <4>1
    <3>4. iter[s \ {Pick(s)}] = Sum(s \ {Pick(s)})
      BY <1>7, <3>2, <3>3
    <3> QED
      BY <1>5, <3>1, <3>2, <3>4
  <2> QED
    BY <2>1
<1>8. Cardinality(S) \in Nat
  BY FS_CardinalityType
<1>9. Nat \subseteq Sums
  <2> HIDE DEF Sums
  <2> QED
    BY <1>6, <1>7, SetInduction
<1>10. iter[S] = Sum(S)
  BY <1>8, <1>9
<1> QED
  BY <1>1, <1>10 DEF Sum

(***************************************************************************)
(* However many goroutines lock a key, each with a context of its own, and *)
(* however often the answers of Lock, TryLock and Unlock are lost and the  *)
(* requests sent again: while nobody has forced the lock or was told an    *)
(* error, the member's count is the number of Locks that returned less the *)
(* number of Unlocks, and one goroutine at most holds the lock.            *)
(***************************************************************************)
THEOREM LocksAreBalanced == LockSpec => []LockIsBalanced
<1>1. LockInv => LockIsBalanced
  <2> SUFFICES ASSUME LockInv, \A g \in Goroutines : locking[g] = NoLockCall, unsure = {}, ~forced
               PROVE  /\ keyLock.count = CountOf(Goroutines)
                      /\ \A g, h \in Goroutines : held[g] > 0 /\ held[h] > 0 => ExtractLockID(g) = ExtractLockID(h)
    BY DEF LockIsBalanced
  <2>1. LockTyped
    BY DEF LockInv
  <2>2. \A g \in Goroutines : locking[g].kind = "none" /\ locking[g].step = "idle"
    BY DEF NoLockCall
  <2>3. Certain
    BY <2>2 DEF Certain, InVain
  <2>4. ASSUME NEW g \in Goroutines
        PROVE  held[g] = IF Owns(g) THEN keyLock.count ELSE 0
    <3>1. BalancedOf(g)
      BY <2>3 DEF LockInv
    <3>2. ~Done(g) /\ held[g] \in Int
      BY <2>1, <2>2 DEF Done, LockTyped
    <3>3. Expected(g) = held[g]
      BY <3>2 DEF Expected
    <3> QED
      BY <3>1, <3>3 DEF BalancedOf
  <2>5. \A g, h \in Goroutines : Owns(g) /\ Owns(h) => g = h
    BY <2>1, IdsDiffer DEF Owns
  <2>6. \A g, h \in Goroutines : held[g] > 0 /\ held[h] > 0 => ExtractLockID(g) = ExtractLockID(h)
    BY <2>4, <2>5
  <2>7. keyLock.count = CountOf(Goroutines)
    <3>1. IsFiniteSet(Goroutines) /\ keyLock.count \in Nat
      BY <2>1, LocksAssumption DEF LockTyped
    <3>2. CASE keyLock.owner = -1
      <4>1. keyLock.count = 0
        BY <2>1, <3>2 DEF LockTyped, Free
      <4>2. \A g \in Goroutines : held[g] = 0
        BY <2>4, <4>1
      <4>3. CountOf(Goroutines) = 0
        <5> DEFINE h == CHOOSE x : x \notin Goroutines
                   c == 0
        <5>1. \A g \in Goroutines : held[g] = IF g = h THEN c ELSE 0
          BY <4>2
        <5>2. c \in Nat /\ c = 0
          OBVIOUS
        <5> HIDE DEF c, h
        <5> QED
          BY <3>1, <5>1, <5>2, OneTerm
      <4> QED
        BY <4>1, <4>3
    <3>3. CASE keyLock.owner # -1
      <4>1. PICK h \in Goroutines : Owns(h)
        BY <2>1, <3>3 DEF LockTyped
      <4>2. \A g \in Goroutines : held[g] = IF g = h THEN keyLock.count ELSE 0
        BY <2>4, <2>5, <4>1
      <4> QED
        BY <3>1, <4>1, <4>2, OneTerm
    <3> QED
      BY <3>2, <3>3
  <2> QED
    BY <2>6, <2>7
<1> QED
  BY <1>1, LockInitInv, LockStepInv, PTL DEF LockSpec

---------------------------------------------------------------------------
(***************************************************************************)
(* The batches.  The loops over the entries are folds: FoldLeft goes from  *)
(* the last index, the largest of a set, to the first.                     *)
(***************************************************************************)
LEMMA MaxIsLast == ASSUME NEW n \in Nat, NEW s \in SUBSET (1..n), n \in s PROVE Max(s) = n
<1>1. \A y \in s : n >= y
  OBVIOUS
<1>2. \A x \in s : (\A y \in s : x >= y) => x = n
  OBVIOUS
<1> QED
  BY <1>1, <1>2 DEF Max

\* The bodies of the loops over the entries; values is what the member holds.
LoopBody(loop, values, acc, e) ==
    IF loop = "pairs" THEN AppendPair(acc, e)
    ELSE IF loop = "store" THEN StoreEntry(acc, e) ELSE ReadEntry(values, acc, e)

\* The function by which FoldLeft is defined.
Folding(loop, values, g, base, list, D) ==
    g = [s \in SUBSET D |-> IF s = {} THEN base ELSE LoopBody(loop, values, g[s \ {Max(s)}], list[Max(s)])]

\* There is such a function for every list.
LEMMA FoldExists ==
  ASSUME NEW loop, NEW values, NEW base, NEW list, NEW m \in Nat
  PROVE  \E g : Folding(loop, values, g, base, list, 1..m)
<1> DEFINE S == {n \in Nat : \E g : Folding(loop, values, g, base, list, 1..n)}
<1>1. 0 \in S
  <2> DEFINE g == [s \in SUBSET (1..0) |-> base]
  <2>1. \A s \in SUBSET (1..0) : s = {}
    OBVIOUS
  <2>2. Folding(loop, values, g, base, list, 1..0)
    BY <2>1 DEF Folding
  <2> QED
    BY <2>2
<1>2. ASSUME NEW n \in Nat, n \in S PROVE n + 1 \in S
  <2>1. PICK g : Folding(loop, values, g, base, list, 1..n)
    BY <1>2
  <2> DEFINE h == [s \in SUBSET (1..(n + 1)) |->
                     IF n + 1 \in s THEN LoopBody(loop, values, g[s \ {n + 1}], list[n + 1]) ELSE g[s]]
  <2>2. ASSUME NEW s \in SUBSET (1..(n + 1)), n + 1 \in s
        PROVE  h[s] = LoopBody(loop, values, h[s \ {Max(s)}], list[Max(s)])
    <3>1. Max(s) = n + 1
      BY <2>2, MaxIsLast
    <3>2. s \ {n + 1} \in SUBSET (1..(n + 1)) /\ n + 1 \notin s \ {n + 1}
      OBVIOUS
    <3>3. h[s \ {n + 1}] = g[s \ {n + 1}]
      BY <3>2
    <3> QED
      BY <2>2, <3>1, <3>3
  <2>3. ASSUME NEW s \in SUBSET (1..(n + 1)), n + 1 \notin s, s # {}
        PROVE  h[s] = LoopBody(loop, values, h[s \ {Max(s)}], list[Max(s)])
    <3>1. s \in SUBSET (1..n) /\ s \ {Max(s)} \in SUBSET (1..(n + 1)) /\ n + 1 \notin s \ {Max(s)}
      <4>1. \A i \in s : i \in 1..n
        BY <2>3
      <4> QED
        BY <2>3, <4>1
    <3>2. h[s] = g[s] /\ h[s \ {Max(s)}] = g[s \ {Max(s)}]
      BY <2>3, <3>1
    <3>3. g[s] = LoopBody(loop, values, g[s \ {Max(s)}], list[Max(s)])
      BY <2>1, <2>3, <3>1 DEF Folding
    <3> QED
      BY <3>2, <3>3
  <2>4. h[{}] = base
    <3>1. {} \in SUBSET (1..n) /\ {} \in SUBSET (1..(n + 1)) /\ h[{}] = g[{}]
      OBVIOUS
    <3> QED
      BY <3>1, <2>1 DEF Folding
  <2>5. Folding(loop, values, h, base, list, 1..(n + 1))
    <3>1. \A s \in SUBSET (1..(n + 1)) : h[s] = IF s = {} THEN base ELSE LoopBody(loop, values, h[s \ {Max(s)}], list[Max(s)])
      BY <2>2, <2>3, <2>4
    <3>2. h = [s \in SUBSET (1..(n + 1)) |-> h[s]]
      OBVIOUS
    <3> HIDE DEF h
    <3> QED
      BY <3>1, <3>2 DEF Folding
  <2> QED
    BY <2>5
<1> QED
  <2> HIDE DEF S
  <2>1. Nat \subseteq S
    BY <1>1, <1>2, SetInduction
  <2> QED
    BY <2>1 DEF S

\* One after the other, the values that a loop goes through.
Passes(loop, values, acc, base, list, m, result) ==
    /\ acc[0] = base /\ acc[m] = result
    /\ \A n \in 1..m : acc[n] = LoopBody(loop, values, acc[n - 1], list[n])

\* The fold is what the passes through the loop lead to.
LEMMA FoldSteps ==
  ASSUME NEW loop, NEW values, NEW base, NEW list, NEW m \in Nat, NEW iter, Folding(loop, values, iter, base, list, 1..m)
  PROVE  \E acc : Passes(loop, values, acc, base, list, m, iter[1..m])
<1> DEFINE acc == [n \in 0..m |-> iter[1..n]]
<1>1. acc[0] = base
  BY DEF Folding
<1>2. ASSUME NEW n \in 1..m PROVE acc[n] = LoopBody(loop, values, acc[n - 1], list[n])
  <2>1. n \in Nat /\ n \in 0..m /\ n - 1 \in 0..m /\ n \in 1..n
    OBVIOUS
  <2>2. (1..n) \in SUBSET (1..m) /\ (1..n) # {}
    <3>1. \A i \in 1..n : i \in 1..m
      BY <2>1
    <3> QED
      BY <2>1, <3>1
  <2>3. (1..n) \ {n} = 1..(n - 1)
    <3>1. \A i : i \in (1..n) \ {n} <=> i \in 1..(n - 1)
      OBVIOUS
    <3> QED
      BY <3>1
  <2>4. Max(1..n) = n
    BY <2>1, MaxIsLast
  <2>5. iter[1..n] = LoopBody(loop, values, iter[(1..n) \ {n}], list[n])
    BY <2>2, <2>4 DEF Folding
  <2>6. acc[n] = iter[1..n] /\ acc[n - 1] = iter[1..(n - 1)]
    BY <2>1
  <2> QED
    BY <2>3, <2>5, <2>6
<1>3. acc[m] = iter[1..m]
  OBVIOUS
<1> HIDE DEF acc
<1> QED
  BY <1>1, <1>2, <1>3 DEF Passes

\* partitionToPairs, StoreAll and ReadAll are the results of the passes.
LEMMA PairSteps ==
  ASSUME NEW list, NEW m \in Nat, DOMAIN list = 1..m
  PROVE  \E acc : /\ acc[0] = NoPairs /\ acc[m] = partitionToPairs(list)
                  /\ \A n \in 1..m : acc[n] = AppendPair(acc[n - 1], list[n])
<1> DEFINE Is(g) == g = [s \in SUBSET (DOMAIN list) |->
                           IF s = {} THEN NoPairs ELSE AppendPair(g[s \ {Max(s)}], list[Max(s)])]
           iter  == CHOOSE g : Is(g)
<1>1. \A g : Is(g) <=> Folding("pairs", 0, g, NoPairs, list, 1..m)
  BY DEF Folding, LoopBody
<1>2. partitionToPairs(list) = iter[1..m]
  BY DEF partitionToPairs, FoldLeft, MapThenFoldSet
<1>3. \E g : Is(g)
  BY <1>1, FoldExists
<1>4. Is(iter)
  BY <1>3
<1> HIDE DEF iter, Is
<1> DEFINE loop == "pairs"
<1>5. Folding(loop, 0, iter, NoPairs, list, 1..m)
  BY <1>1, <1>4
<1> HIDE DEF loop
<1>6. PICK acc : Passes(loop, 0, acc, NoPairs, list, m, iter[1..m])
  BY <1>5, FoldSteps
<1>7. \A n \in 1..m : acc[n] = AppendPair(acc[n - 1], list[n])
  BY <1>6 DEF Passes, LoopBody, loop
<1> QED
  BY <1>2, <1>6, <1>7 DEF Passes

LEMMA StoreSteps ==
  ASSUME NEW values, NEW list, NEW m \in Nat, DOMAIN list = 1..m
  PROVE  \E acc : /\ acc[0] = values /\ acc[m] = StoreAll(values, list)
                  /\ \A n \in 1..m : acc[n] = StoreEntry(acc[n - 1], list[n])
<1> DEFINE Is(g) == g = [s \in SUBSET (DOMAIN list) |->
                           IF s = {} THEN values ELSE StoreEntry(g[s \ {Max(s)}], list[Max(s)])]
           iter  == CHOOSE g : Is(g)
<1>1. \A g : Is(g) <=> Folding("store", 0, g, values, list, 1..m)
  BY DEF Folding, LoopBody
<1>2. StoreAll(values, list) = iter[1..m]
  BY DEF StoreAll, FoldLeft, MapThenFoldSet
<1>3. \E g : Is(g)
  BY <1>1, FoldExists
<1>4. Is(iter)
  BY <1>3
<1> HIDE DEF iter, Is
<1> DEFINE loop == "store"
<1>5. Folding(loop, 0, iter, values, list, 1..m)
  BY <1>1, <1>4
<1> HIDE DEF loop
<1>6. PICK acc : Passes(loop, 0, acc, values, list, m, iter[1..m])
  BY <1>5, FoldSteps
<1>7. \A n \in 1..m : acc[n] = StoreEntry(acc[n - 1], list[n])
  BY <1>6 DEF Passes, LoopBody, loop
<1> QED
  BY <1>2, <1>6, <1>7 DEF Passes

LEMMA ReadSteps ==
  ASSUME NEW values, NEW list, NEW m \in Nat, DOMAIN list = 1..m
  PROVE  \E acc : /\ acc[0] = <<>> /\ acc[m] = ReadAll(values, list)
                  /\ \A n \in 1..m : acc[n] = ReadEntry(values, acc[n - 1], list[n])
<1> DEFINE Is(g) == g = [s \in SUBSET (DOMAIN list) |->
                           IF s = {} THEN <<>> ELSE ReadEntry(values, g[s \ {Max(s)}], list[Max(s)])]
           iter  == CHOOSE g : Is(g)
<1>1. \A g : Is(g) <=> Folding("read", values, g, <<>>, list, 1..m)
  BY DEF Folding, LoopBody
<1>2. ReadAll(values, list) = iter[1..m]
  BY DEF ReadAll, FoldLeft, MapThenFoldSet
<1>3. \E g : Is(g)
  BY <1>1, FoldExists
<1>4. Is(iter)
  BY <1>3
<1> HIDE DEF iter, Is
<1> DEFINE loop == "read"
<1>5. Folding(loop, values, iter, <<>>, list, 1..m)
  BY <1>1, <1>4
<1> HIDE DEF loop
<1>6. PICK acc : Passes(loop, values, acc, <<>>, list, m, iter[1..m])
  BY <1>5, FoldSteps
<1>7. \A n \in 1..m : acc[n] = ReadEntry(values, acc[n - 1], list[n])
  BY <1>6 DEF Passes, LoopBody, loop
<1> QED
  BY <1>2, <1>6, <1>7 DEF Passes

\* An entry of the batches, and what is known of the entries of a call that was not refused.
Entries == UNION {ToSet(b) : b \in Batches}
Sendable(e) == e \in Entries /\ e.key \in AnyKey

\* The entry m is the last one of its key among the first n of s.
LastAt(s, m, n) == m \in 1..n /\ \A i \in 1..n : s[i].key = s[m].key => i <= m

\* Every key has a last entry.
LEMMA LastExists ==
  ASSUME NEW s, NEW n \in Nat, NEW i \in 1..n
  PROVE  \E m \in 1..n : LastAt(s, m, n) /\ s[m].key = s[i].key
<1> DEFINE S == {x \in 0..n : \E m \in 1..n : x = n - m /\ s[m].key = s[i].key}
<1>1. S \in SUBSET Nat
  OBVIOUS
<1>2. n - i \in S
  OBVIOUS
<1>3. PICK x \in S : \A y \in S : x <= y
  <2> HIDE DEF S
  <2> QED
    BY <1>1, <1>2, LeastExists
<1>4. PICK m \in 1..n : x = n - m /\ s[m].key = s[i].key
  OBVIOUS
<1>5. ASSUME NEW j \in 1..n, s[j].key = s[m].key PROVE j <= m
  <2>1. n - j \in S
    BY <1>4, <1>5
  <2>2. n - m <= n - j
    BY <1>3, <1>4, <2>1
  <2> QED
    BY <2>2
<1> QED
  BY <1>4, <1>5 DEF LastAt

\* A member holds, of every key it was sent, the last value.
LEMMA StoreFacts ==
  ASSUME NEW K, NEW values, values = [k \in K |-> values[k]], NEW s, NEW n \in Nat, DOMAIN s = 1..n,
         \A i \in 1..n : s[i].key \in K
  PROVE  /\ StoreAll(values, s) = [k \in K |-> StoreAll(values, s)[k]]
         /\ \A m \in 1..n : LastAt(s, m, n) => StoreAll(values, s)[s[m].key] = s[m].value
<1>1. PICK acc : /\ acc[0] = values /\ acc[n] = StoreAll(values, s)
                 /\ \A x \in 1..n : acc[x] = StoreEntry(acc[x - 1], s[x])
  BY StoreSteps
<1> DEFINE Holds(x) == /\ acc[x] = [k \in K |-> acc[x][k]]
                       /\ \A m \in 1..x : LastAt(s, m, x) => acc[x][s[m].key] = s[m].value
           S == {x \in Nat : x <= n => Holds(x)}
<1>2. 0 \in S
  BY <1>1
<1>3. ASSUME NEW x \in Nat, x \in S PROVE x + 1 \in S
  <2>1. SUFFICES ASSUME x + 1 <= n PROVE Holds(x + 1)
    OBVIOUS
  <2>2. Holds(x) /\ x + 1 \in 1..n
    BY <1>3, <2>1
  <2>3. acc[x + 1] = [acc[x] EXCEPT ![s[x + 1].key] = s[x + 1].value]
    BY <1>1, <2>2 DEF StoreEntry
  <2>4. acc[x + 1] = [k \in K |-> acc[x + 1][k]]
    BY <2>2, <2>3
  <2>5. s[x + 1].key \in K /\ acc[x + 1][s[x + 1].key] = s[x + 1].value
        /\ \A k \in K : k # s[x + 1].key => acc[x + 1][k] = acc[x][k]
    BY <2>2, <2>3
  <2>6. ASSUME NEW m \in 1..(x + 1), LastAt(s, m, x + 1) PROVE acc[x + 1][s[m].key] = s[m].value
    <3>1. CASE m = x + 1
      BY <2>5, <3>1
    <3>2. CASE m # x + 1
      <4>1. m \in 1..x /\ m \in 1..n /\ s[m].key # s[x + 1].key
        BY <2>1, <2>6, <3>2 DEF LastAt
      <4>2. LastAt(s, m, x)
        BY <2>6, <4>1 DEF LastAt
      <4> QED
        BY <2>2, <2>5, <4>1, <4>2
    <3> QED
      BY <3>1, <3>2
  <2> QED
    BY <2>4, <2>6
<1> HIDE DEF S
<1>4. Nat \subseteq S
  BY <1>2, <1>3, SetInduction
<1>5. Holds(n)
  BY <1>4 DEF S
<1> QED
  BY <1>1, <1>5

\* An answer has the entries of the keys that are there, and no other.
LEMMA ReadFacts ==
  ASSUME NEW values, NEW s, NEW n \in Nat, DOMAIN s = 1..n,
         NEW X, \A i \in 1..n : [key |-> s[i].key, value |-> values[s[i].key]] \in X
  PROVE  /\ ReadAll(values, s) \in Seq(X)
         /\ \A e : e \in ToSet(ReadAll(values, s)) <=>
              \E i \in 1..n : values[s[i].key] # NilValue /\ e = [key |-> s[i].key, value |-> values[s[i].key]]
<1>1. PICK acc : /\ acc[0] = <<>> /\ acc[n] = ReadAll(values, s)
                 /\ \A x \in 1..n : acc[x] = ReadEntry(values, acc[x - 1], s[x])
  BY ReadSteps, SMTT(30)
<1> DEFINE Item(i) == [key |-> s[i].key, value |-> values[s[i].key]]
           Holds(x) == /\ acc[x] \in Seq(X)
                       /\ \A e : e \in ToSet(acc[x]) <=> \E i \in 1..x : values[s[i].key] # NilValue /\ e = Item(i)
           S == {x \in Nat : x <= n => Holds(x)}
<1>2. 0 \in S
  <2>1. ToSet(<<>>) = {} /\ <<>> \in Seq(X)
    BY DEF ToSet
  <2>2. \A i : i \notin 1..0
    OBVIOUS
  <2>3. Holds(0)
    BY <1>1, <2>1, <2>2
  <2> QED
    BY <2>3
<1>3. ASSUME NEW x \in Nat, x \in S PROVE x + 1 \in S
  <2>1. SUFFICES ASSUME x + 1 <= n PROVE Holds(x + 1)
    OBVIOUS
  <2>2. Holds(x) /\ x + 1 \in 1..n /\ Item(x + 1) \in X
    BY <1>3, <2>1
  <2> DEFINE new == Item(x + 1)
             there == values[s[x + 1].key] # NilValue
  <2>3. acc[x + 1] = IF there THEN Append(acc[x], new) ELSE acc[x]
    BY <1>1, <2>2 DEF ReadEntry
  <2>4. \A e : (\E i \in 1..(x + 1) : values[s[i].key] # NilValue /\ e = Item(i))
               <=> (\E i \in 1..x : values[s[i].key] # NilValue /\ e = Item(i)) \/ (there /\ e = new)
    <3>1. \A i : i \in 1..(x + 1) <=> i \in 1..x \/ i = x + 1
      OBVIOUS
    <3> QED
      BY <3>1
  <2>5. ToSet(acc[x + 1]) = ToSet(acc[x]) \cup (IF there THEN {new} ELSE {})
    <3>1. CASE there
      <4>1. acc[x + 1] = Append(acc[x], new) /\ acc[x] \in Seq(X) /\ new \in X
        BY <2>2, <2>3, <3>1
      <4> HIDE DEF new, there
      <4>2. /\ Len(acc[x]) \in Nat /\ DOMAIN acc[x] = 1..Len(acc[x]) /\ DOMAIN acc[x + 1] = 1..(Len(acc[x]) + 1)
            /\ acc[x + 1][Len(acc[x]) + 1] = new
            /\ \A i \in 1..Len(acc[x]) : acc[x + 1][i] = acc[x][i]
        BY <4>1
      <4> QED
        <5> DEFINE a == acc[x]
                   b == acc[x + 1]
                   l == Len(a)
        <5>1. /\ l \in Nat /\ DOMAIN a = 1..l /\ DOMAIN b = 1..(l + 1) /\ b[l + 1] = new
              /\ \A i \in 1..l : b[i] = a[i]
          BY <4>2
        <5> HIDE DEF a, b, l
        <5>2. {b[i] : i \in 1..(l + 1)} = {a[i] : i \in 1..l} \cup {new}
          BY <5>1
        <5>3. ToSet(b) = ToSet(a) \cup {new}
          BY <5>1, <5>2 DEF ToSet
        <5> QED
          BY <3>1, <5>3 DEF a, b
    <3>2. CASE ~there
      BY <2>3, <3>2
    <3> QED
      BY <3>1, <3>2
  <2>6. acc[x + 1] \in Seq(X)
    <3> HIDE DEF there, new
    <3>1. acc[x] \in Seq(X) /\ new \in X
      BY <2>2 DEF new
    <3> QED
      BY <2>3, <3>1
  <2>7. \A e : e \in ToSet(acc[x + 1]) <=> e \in ToSet(acc[x]) \/ (there /\ e = new)
    <3> HIDE DEF there, new
    <3> QED
      BY <2>5
  <2> QED
    BY <2>2, <2>4, <2>6, <2>7
<1> HIDE DEF S
<1>4. Nat \subseteq S
  BY <1>2, <1>3, SetInduction
<1>5. Holds(n)
  BY <1>4 DEF S
<1> QED
  BY <1>1, <1>5

\* What it means that s is a group of the first n entries of b: it holds those of its partition, and
\* the last one of every key is the last one there.
IsGroup(s, p, b, n) ==
    /\ \A i \in DOMAIN s : \E j \in 1..n : s[i] = b[j]
    /\ \A j \in 1..n : PartitionIDOf[b[j].key] = p =>
         /\ \E i \in DOMAIN s : s[i] = b[j]
         /\ LastAt(b, j, n) => \E i \in DOMAIN s : LastAt(s, i, Len(s)) /\ s[i] = b[j]

LEMMA GroupGrows ==
  ASSUME NEW X, NEW s \in Seq(X), NEW p, NEW b, NEW n \in Nat, IsGroup(s, p, b, n), b[n + 1] \in X
  PROVE  IsGroup(IF PartitionIDOf[b[n + 1].key] = p THEN Append(s, b[n + 1]) ELSE s, p, b, n + 1)
<1> DEFINE e == b[n + 1]
           t == IF PartitionIDOf[e.key] = p THEN Append(s, e) ELSE s
           l == Len(s)
<1>1. /\ l \in Nat /\ DOMAIN s = 1..l
      /\ \A j : j \in 1..(n + 1) <=> j \in 1..n \/ j = n + 1
  OBVIOUS
<1>2. ASSUME NEW j \in 1..n, LastAt(b, j, n + 1) PROVE LastAt(b, j, n) /\ e.key # b[j].key
  BY <1>2 DEF LastAt
<1>3. CASE PartitionIDOf[e.key] = p
  <2>1. t = Append(s, e) /\ e \in X
    BY <1>3
  <2> HIDE DEF e, t, l
  <2>2. /\ Len(t) = l + 1 /\ DOMAIN t = 1..(l + 1) /\ t[l + 1] = e /\ \A i \in 1..l : t[i] = s[i] /\ i \in 1..(l + 1)
    BY <1>1, <2>1 DEF l
  <2>3. ASSUME NEW i \in DOMAIN t PROVE \E j \in 1..(n + 1) : t[i] = b[j]
    <3>1. CASE i = l + 1
      BY <1>1, <2>2, <3>1 DEF e
    <3>2. CASE i \in 1..l
      BY <1>1, <2>2, <3>2 DEF IsGroup
    <3> QED
      BY <1>1, <2>2, <3>1, <3>2
  <2>4. ASSUME NEW j \in 1..(n + 1), PartitionIDOf[b[j].key] = p PROVE \E i \in DOMAIN t : t[i] = b[j]
    <3>1. CASE j = n + 1
      BY <1>1, <2>2, <3>1 DEF e
    <3>2. CASE j \in 1..n
      BY <1>1, <2>2, <2>4, <3>2 DEF IsGroup
    <3> QED
      BY <1>1, <3>1, <3>2
  <2>5. ASSUME NEW j \in 1..(n + 1), PartitionIDOf[b[j].key] = p, LastAt(b, j, n + 1)
        PROVE  \E i \in DOMAIN t : LastAt(t, i, Len(t)) /\ t[i] = b[j]
    <3>1. CASE j = n + 1
      <4>1. LastAt(t, l + 1, Len(t))
        BY <1>1, <2>2 DEF LastAt
      <4> QED
        BY <1>1, <2>2, <3>1, <4>1 DEF e
    <3>2. CASE j \in 1..n
      <4>1. LastAt(b, j, n) /\ e.key # b[j].key
        BY <1>2, <2>5, <3>2
      <4>2. PICK i \in DOMAIN s : LastAt(s, i, Len(s)) /\ s[i] = b[j]
        BY <2>5, <3>2, <4>1 DEF IsGroup
      <4>3. i \in 1..l /\ i \in DOMAIN t /\ t[i] = b[j]
        BY <1>1, <2>2, <4>2
      <4>4. ASSUME NEW x \in 1..Len(t), t[x].key = t[i].key PROVE x <= i
        <5>1. x # l + 1
          BY <2>2, <4>1, <4>3, <4>4
        <5>2. x \in 1..l /\ s[x].key = s[i].key
          BY <1>1, <2>2, <4>3, <4>4, <5>1
        <5> QED
          BY <4>2, <5>2 DEF LastAt, l
      <4> QED
        BY <1>1, <2>2, <4>3, <4>4 DEF LastAt
    <3> QED
      BY <1>1, <3>1, <3>2
  <2>6. IsGroup(t, p, b, n + 1)
    BY <2>3, <2>4, <2>5 DEF IsGroup
  <2> QED
    BY <2>6 DEF t, e
<1>4. CASE PartitionIDOf[e.key] # p
  <2>1. t = s
    BY <1>4
  <2>2. \A i \in DOMAIN s : \E j \in 1..(n + 1) : s[i] = b[j]
    BY <1>1 DEF IsGroup
  <2>3. ASSUME NEW j \in 1..(n + 1), PartitionIDOf[b[j].key] = p
        PROVE  /\ \E i \in DOMAIN s : s[i] = b[j]
               /\ LastAt(b, j, n + 1) => \E i \in DOMAIN s : LastAt(s, i, Len(s)) /\ s[i] = b[j]
    <3>1. j \in 1..n
      BY <1>1, <1>4, <2>3
    <3> QED
      BY <1>2, <2>3, <3>1 DEF IsGroup
  <2>4. IsGroup(s, p, b, n + 1)
    BY <2>2, <2>3 DEF IsGroup
  <2> QED
    BY <2>1, <2>4
<1> QED
  BY <1>3, <1>4

\* partitionToPairs divides a batch into groups.
LEMMA GroupFacts ==
  ASSUME NEW X, NEW b \in Seq(X), NEW n \in Nat, n = Len(b),
         \A j \in 1..n : PartitionIDOf[b[j].key] \in PartitionIDs
  PROVE  /\ partitionToPairs(b) \in [PartitionIDs -> Seq(X)]
         /\ \A p \in PartitionIDs : IsGroup(partitionToPairs(b)[p], p, b, n)
<1>1. PICK acc : /\ acc[0] = NoPairs /\ acc[n] = partitionToPairs(b)
                 /\ \A x \in 1..n : acc[x] = AppendPair(acc[x - 1], b[x])
  <2>1. DOMAIN b = 1..n
    OBVIOUS
  <2> QED
    BY <2>1, PairSteps, SMTT(30)
<1> DEFINE Holds(x) == /\ acc[x] \in [PartitionIDs -> Seq(X)]
                       /\ \A p \in PartitionIDs : IsGroup(acc[x][p], p, b, x)
           S == {x \in Nat : x <= n => Holds(x)}
<1>2. 0 \in S
  <2>1. acc[0] \in [PartitionIDs -> Seq(X)] /\ \A p \in PartitionIDs : acc[0][p] = <<>>
    BY <1>1 DEF NoPairs
  <2>2. \A p : IsGroup(<<>>, p, b, 0)
    BY DEF IsGroup
  <2> QED
    BY <2>1, <2>2
<1>3. ASSUME NEW x \in Nat, x \in S PROVE x + 1 \in S
  <2>1. SUFFICES ASSUME x + 1 <= n PROVE Holds(x + 1)
    OBVIOUS
  <2>2. Holds(x) /\ x + 1 \in 1..n
    BY <1>3, <2>1
  <2> DEFINE e == b[x + 1]
             q == PartitionIDOf[e.key]
  <2>3. e \in X /\ q \in PartitionIDs
    BY <2>2
  <2>4. acc[x + 1] = [acc[x] EXCEPT ![q] = Append(@, e)]
    <3>1. (x + 1) - 1 = x
      OBVIOUS
    <3>2. acc[x + 1] = AppendPair(acc[(x + 1) - 1], e)
      BY <1>1, <2>2
    <3> QED
      BY <3>1, <3>2 DEF AppendPair
  <2>5. /\ acc[x + 1] \in [PartitionIDs -> Seq(X)]
        /\ \A p \in PartitionIDs : acc[x + 1][p] = IF q = p THEN Append(acc[x][p], e) ELSE acc[x][p]
    <3> HIDE DEF q, e
    <3> QED
      BY <2>2, <2>3, <2>4
  <2>6. ASSUME NEW p \in PartitionIDs PROVE IsGroup(acc[x + 1][p], p, b, x + 1)
    <3> DEFINE s == acc[x][p]
    <3>1. s \in Seq(X) /\ IsGroup(s, p, b, x)
      BY <2>2
    <3> HIDE DEF s
    <3>2. IsGroup(IF q = p THEN Append(s, e) ELSE s, p, b, x + 1)
      BY <2>3, <3>1, GroupGrows
    <3> QED
      BY <2>5, <3>2 DEF s
  <2> QED
    BY <2>5, <2>6
<1> HIDE DEF S
<1>4. Nat \subseteq S
  BY <1>2, <1>3, SetInduction
<1>5. Holds(n)
  BY <1>4 DEF S
<1> QED
  BY <1>1, <1>5

\* The joined answers have the entries of all of them.
LEMMA FlattenFacts ==
  ASSUME NEW X, NEW s \in Seq(Seq(X))
  PROVE  \A e : e \in ToSet(FlattenSeq(s)) <=> \E i \in DOMAIN s : e \in ToSet(s[i])
<1> DEFINE n == Len(s)
<1>1. PICK j : Joins(j, s, n) /\ FlattenSeq(s) = j[n]
  BY FlattenSteps
<1>2. n \in Nat /\ DOMAIN s = 1..n /\ \A i \in 1..n : s[i] \in Seq(X)
  OBVIOUS
<1> HIDE DEF n
<1> DEFINE Holds(x) == j[x] \in Seq(X) /\ \A e : e \in ToSet(j[x]) <=> \E i \in 1..x : e \in ToSet(s[i])
           S == {x \in Nat : x <= n => Holds(x)}
<1>3. 0 \in S
  <2>1. ToSet(<<>>) = {} /\ <<>> \in Seq(X)
    BY DEF ToSet
  <2>2. \A i : i \notin 1..0
    OBVIOUS
  <2>3. Holds(0)
    BY <1>1, <2>1, <2>2 DEF Joins
  <2> QED
    BY <2>3
<1>4. ASSUME NEW x \in Nat, x \in S PROVE x + 1 \in S
  <2>1. SUFFICES ASSUME x + 1 <= n PROVE Holds(x + 1)
    OBVIOUS
  <2>2. Holds(x) /\ x + 1 \in 1..n
    BY <1>2, <1>4, <2>1
  <2> DEFINE a == j[x]
             c == s[x + 1]
  <2>3. j[x + 1] = a \o c /\ a \in Seq(X) /\ c \in Seq(X)
    <3>1. (x + 1) - 1 = x
      OBVIOUS
    <3>2. j[x + 1] = j[(x + 1) - 1] \o c
      BY <1>1, <2>2 DEF Joins
    <3> QED
      BY <1>2, <2>2, <3>1, <3>2
  <2>4. ToSet(a \o c) = ToSet(a) \cup ToSet(c) /\ a \o c \in Seq(X)
    <3> HIDE DEF a, c
    <3> DEFINE d == a \o c
               k == Len(a)
               l == Len(c)
    <3>1. /\ d \in Seq(X) /\ k \in Nat /\ l \in Nat /\ DOMAIN a = 1..k /\ DOMAIN c = 1..l /\ DOMAIN d = 1..(k + l)
          /\ \A i \in 1..k : d[i] = a[i]
          /\ \A i \in 1..l : d[k + i] = c[i]
      BY <2>3
    <3> HIDE DEF d, k, l
    <3>2. \A i \in 1..(k + l) : i \in 1..k \/ \E h \in 1..l : i = k + h
      <4>1. ASSUME NEW i \in 1..(k + l), i \notin 1..k PROVE i - k \in 1..l /\ i = k + (i - k)
        BY <3>1, <4>1
      <4> QED
        BY <4>1
    <3>3. (\A i \in 1..k : i \in 1..(k + l)) /\ (\A i \in 1..l : k + i \in 1..(k + l))
      BY <3>1
    <3>4. {d[i] : i \in 1..(k + l)} = {a[i] : i \in 1..k} \cup {c[i] : i \in 1..l}
      <4>1. ASSUME NEW i \in 1..(k + l) PROVE d[i] \in {a[h] : h \in 1..k} \cup {c[h] : h \in 1..l}
        BY <3>1, <3>2
      <4>2. ASSUME NEW i \in 1..k PROVE a[i] \in {d[h] : h \in 1..(k + l)}
        BY <3>1, <3>3
      <4>3. ASSUME NEW i \in 1..l PROVE c[i] \in {d[h] : h \in 1..(k + l)}
        BY <3>1, <3>3
      <4> QED
        BY <4>1, <4>2, <4>3
    <3> QED
      BY <3>1, <3>4 DEF ToSet, d
  <2>5. \A i : i \in 1..(x + 1) <=> i \in 1..x \/ i = x + 1
    OBVIOUS
  <2>6. \A e : e \in ToSet(j[x + 1]) <=> e \in ToSet(a) \/ e \in ToSet(c)
    BY <2>3, <2>4
  <2> QED
    BY <2>2, <2>3, <2>4, <2>5, <2>6
<1> HIDE DEF S
<1>5. Nat \subseteq S
  BY <1>3, <1>4, SetInduction
<1>6. Holds(n)
  <2>1. n \in S /\ n <= n
    BY <1>2, <1>5
  <2> HIDE DEF Holds
  <2> QED
    BY <2>1 DEF S
<1> QED
  BY <1>1, <1>2, <1>6

\* The entries members hold at first, and what they can answer.
AtFirst == [p \in PartitionIDs |->
              [k \in AnyKey |-> IF PartitionIDOf[k] = p /\ k \in DOMAIN Stored0 THEN Stored0[k] ELSE NilValue]]
Held(k) == [key |-> k, value |-> Stored0[k]]
Found   == {[key |-> k, value |-> IF k \in DOMAIN Stored0 THEN Stored0[k] ELSE NilValue] : k \in AnyKey}

BatchTyped ==
    /\ batchAt \in {"idle", "sending", "returned"}
    /\ batchAt # "idle" => batch \in Batches
    /\ futures \in Seq([ok : BOOLEAN, entries : Seq(Found)])
    /\ stored = [p \in PartitionIDs |-> [k \in AnyKey |-> stored[p][k]]]
    /\ batchAt = "idle" => futures = <<>> /\ stored = AtFirst /\ groups = NoPairs

AllOk == \A n \in DOMAIN futures : futures[n].ok

\* The request of a partition was answered: the last values are stored, or the entries are in an answer.
Served(p) ==
    \A j \in DOMAIN batch : PartitionIDOf[batch[j].key] = p =>
        IF doing = "put" THEN LastAt(batch, j, Len(batch)) => stored[p][batch[j].key] = batch[j].value
        ELSE batch[j].key \in DOMAIN Stored0 =>
                 \E n \in DOMAIN futures : Held(batch[j].key) \in ToSet(futures[n].entries)

\* An answer has only entries that were asked for.
Asked(e) == \E j \in DOMAIN batch : batch[j].key \in DOMAIN Stored0 /\ e = Held(batch[j].key)

Sending ==
    batchAt = "sending" =>
        /\ doing \in {"put", "get"} /\ ~HasNil(batch, doing)
        /\ DOMAIN groups = PartitionIDs /\ groups = [p \in PartitionIDs |-> groups[p]]
        /\ \A p \in PartitionIDs : groups[p] \in {<<>>, partitionToPairs(batch)[p]}
        /\ AllOk => \A p \in PartitionIDs : groups[p] = <<>> => Served(p)
        /\ doing = "get" => /\ stored = AtFirst
                            /\ \A n \in DOMAIN futures : \A e \in ToSet(futures[n].entries) : Asked(e)

BatchInv == BatchTyped /\ Sending /\ BatchIsWhole

LEMMA BatchInitInv == BatchInit => BatchInv
  BY DEF BatchInit, BatchInv, BatchTyped, Sending, BatchIsWhole, AtFirst, NoPairs

\* The batch of a call that was not refused, and its groups.
LEMMA CallFacts ==
  ASSUME NEW b \in Batches, NEW what, ~HasNil(b, what)
  PROVE  /\ b \in Seq(ToSet(b)) /\ Len(b) \in Nat /\ DOMAIN b = 1..Len(b)
         /\ \A j \in DOMAIN b : b[j].key \in AnyKey /\ PartitionIDOf[b[j].key] \in PartitionIDs
         /\ partitionToPairs(b) \in [PartitionIDs -> Seq(ToSet(b))]
         /\ \A p \in PartitionIDs : IsGroup(partitionToPairs(b)[p], p, b, Len(b))
<1>1. b \in Seq(ToSet(b)) /\ \A e \in ToSet(b) : e.key \in AnyKey \cup {NilValue}
  BY BatchAssumption
<1>2. Len(b) \in Nat /\ DOMAIN b = 1..Len(b)
  <2> DEFINE X == ToSet(b)
  <2>1. b \in Seq(X)
    BY <1>1
  <2> HIDE DEF X
  <2> QED
    BY <2>1
<1>3. ASSUME NEW j \in DOMAIN b PROVE b[j].key \in AnyKey /\ PartitionIDOf[b[j].key] \in PartitionIDs
  <2>1. b[j] \in ToSet(b)
    BY DEF ToSet
  <2>2. b[j].key # NilValue
    BY DEF HasNil
  <2>3. b[j].key \in AnyKey
    BY <1>1, <2>1, <2>2
  <2> QED
    BY <2>3, BatchAssumption
<1> DEFINE X == ToSet(b)
           n == Len(b)
<1>4. b \in Seq(X) /\ n \in Nat /\ n = Len(b) /\ \A j \in 1..n : PartitionIDOf[b[j].key] \in PartitionIDs
  BY <1>1, <1>2, <1>3
<1>5. /\ partitionToPairs(b) \in [PartitionIDs -> Seq(X)]
      /\ \A p \in PartitionIDs : IsGroup(partitionToPairs(b)[p], p, b, n)
  <2> HIDE DEF X, n
  <2> QED
    BY <1>4, GroupFacts
<1> QED
  BY <1>1, <1>2, <1>3, <1>5

\* A group that is not empty, and its entries.
LEMMA GroupEntries ==
  ASSUME BatchTyped, Sending, batchAt = "sending", NEW p \in PartitionIDs, groups[p] # <<>>
  PROVE  /\ Len(groups[p]) \in Nat /\ DOMAIN groups[p] = 1..Len(groups[p])
         /\ IsGroup(groups[p], p, batch, Len(batch))
         /\ \A i \in DOMAIN groups[p] : \E j \in DOMAIN batch : groups[p][i] = batch[j]
         /\ \A i \in DOMAIN groups[p] : groups[p][i].key \in AnyKey
<1>1. batch \in Batches /\ ~HasNil(batch, doing) /\ groups[p] = partitionToPairs(batch)[p]
  BY DEF BatchTyped, Sending
<1> DEFINE X == ToSet(batch)
           s == groups[p]
<1>2. /\ s \in Seq(X) /\ IsGroup(s, p, batch, Len(batch)) /\ DOMAIN batch = 1..Len(batch)
      /\ \A j \in DOMAIN batch : batch[j].key \in AnyKey
  BY <1>1, CallFacts
<1>3. Len(s) \in Nat /\ DOMAIN s = 1..Len(s)
  <2> HIDE DEF X, s
  <2> QED
    BY <1>2
<1>4. \A i \in DOMAIN s : \E j \in DOMAIN batch : s[i] = batch[j]
  BY <1>2 DEF IsGroup
<1> QED
  BY <1>2, <1>3, <1>4

LEMMA CallStep ==
  ASSUME BatchInv, NEW b \in Batches, NEW what \in {"put", "get"}, CallBatch(b, what)
  PROVE  BatchInv'
<1>1. /\ batchAt = "idle" /\ futures = <<>> /\ stored = AtFirst /\ futures' = <<>> /\ stored' = AtFirst
      /\ batch' = b /\ doing' = what /\ groups = NoPairs
  BY DEF CallBatch, BatchInv, BatchTyped
<1>2. CASE b = <<>> \/ HasNil(b, what)
  <2>1. /\ batchAt' = "returned"
        /\ batchResult' = IF b = <<>> THEN Success(<<>>) ELSE Failed
    BY <1>2 DEF CallBatch
  <2>2. BatchTyped' /\ Sending'
    BY <1>1, <2>1 DEF BatchInv, BatchTyped, Sending
  <2>3. \A p \in PartitionIDs, k \in AnyKey : AtFirst[p][k] # NilValue => k \in DOMAIN Stored0 /\ Stored0[k] = AtFirst[p][k]
    BY DEF AtFirst
  <2>4. CASE b = <<>>
    <3>1. batchResult'.ok /\ batchResult'.entries = <<>> /\ DOMAIN b = {} /\ DOMAIN futures' = {}
      BY <1>1, <2>1, <2>4 DEF Success
    <3>2. ToSet(batchResult'.entries) = {}
      BY <3>1 DEF ToSet
    <3>3. {[key |-> k, value |-> Stored0[k]] : k \in {b[n].key : n \in DOMAIN b} \cap DOMAIN Stored0} = {}
      BY <3>1
    <3>4. ~HasNil(b, what)
      BY <3>1 DEF HasNil
    <3>5. BatchIsWhole'
      BY <1>1, <2>1, <3>1, <3>2, <3>3, <3>4 DEF BatchIsWhole
    <3> QED
      BY <2>2, <3>5 DEF BatchInv
  <2>5. CASE b # <<>>
    <3>1. ~batchResult'.ok
      BY <2>1, <2>5 DEF Failed
    <3>2. BatchIsWhole'
      BY <1>1, <2>3, <3>1 DEF BatchIsWhole
    <3> QED
      BY <2>2, <3>2 DEF BatchInv
  <2> QED
    BY <2>4, <2>5
<1>3. CASE ~(b = <<>> \/ HasNil(b, what))
  <2>1. batchAt' = "sending" /\ groups' = partitionToPairs(b)
    BY <1>3 DEF CallBatch
  <2>2. /\ DOMAIN b = 1..Len(b) /\ partitionToPairs(b) \in [PartitionIDs -> Seq(ToSet(b))]
        /\ \A p \in PartitionIDs : IsGroup(partitionToPairs(b)[p], p, b, Len(b))
    BY <1>3, CallFacts
  <2>3. BatchTyped'
    BY <1>1, <2>1 DEF BatchInv, BatchTyped
  <2>4. ASSUME NEW p \in PartitionIDs, groups'[p] = <<>> PROVE Served(p)'
    <3>1. \A j \in DOMAIN b : PartitionIDOf[b[j].key] # p
      BY <2>1, <2>2, <2>4 DEF IsGroup
    <3> QED
      BY <1>1, <3>1 DEF Served
  <2>5. DOMAIN groups' = PartitionIDs /\ groups' = [p \in PartitionIDs |-> groups'[p]]
    BY <2>1, <2>2
  <2>6. Sending'
    BY <1>1, <1>3, <2>1, <2>4, <2>5 DEF Sending
  <2>7. BatchIsWhole'
    BY <2>1 DEF BatchIsWhole
  <2> QED
    BY <2>3, <2>6, <2>7 DEF BatchInv
<1> QED
  BY <1>2, <1>3

\* What a member holds after a request of p was carried out.
LEMMA WriteFacts ==
  ASSUME BatchTyped, Sending, batchAt = "sending", NEW p \in PartitionIDs, groups[p] # <<>>
  PROVE  /\ AfterWrite(p) = [q \in PartitionIDs |-> [k \in AnyKey |-> AfterWrite(p)[q][k]]]
         /\ \A q \in PartitionIDs : q # p => AfterWrite(p)[q] = stored[q]
         /\ \A j \in DOMAIN batch : PartitionIDOf[batch[j].key] = p /\ LastAt(batch, j, Len(batch)) =>
              AfterWrite(p)[p][batch[j].key] = batch[j].value
<1> DEFINE s == groups[p]
           values == stored[p]
           n == Len(s)
<1>1. /\ n \in Nat /\ DOMAIN s = 1..n /\ IsGroup(s, p, batch, Len(batch)) /\ \A i \in 1..n : s[i].key \in AnyKey
  BY GroupEntries
<1>2. stored = [q \in PartitionIDs |-> [k \in AnyKey |-> stored[q][k]]]
  BY DEF BatchTyped
<1>3. values = [k \in AnyKey |-> values[k]]
  BY <1>2
<1> HIDE DEF s, values, n
<1>4. /\ StoreAll(values, s) = [k \in AnyKey |-> StoreAll(values, s)[k]]
      /\ \A m \in 1..n : LastAt(s, m, n) => StoreAll(values, s)[s[m].key] = s[m].value
  BY <1>1, <1>3, StoreFacts
<1>5. AfterWrite(p) = [stored EXCEPT ![p] = StoreAll(values, s)]
  BY DEF AfterWrite, s, values
<1>6. AfterWrite(p)[p] = StoreAll(values, s) /\ \A q \in PartitionIDs : q # p => AfterWrite(p)[q] = stored[q]
  BY <1>2, <1>5
<1>7. AfterWrite(p) = [q \in PartitionIDs |-> [k \in AnyKey |-> AfterWrite(p)[q][k]]]
  <2>1. ASSUME NEW q \in PartitionIDs PROVE AfterWrite(p)[q] = [k \in AnyKey |-> AfterWrite(p)[q][k]]
    <3>1. CASE q = p
      BY <1>4, <1>6, <3>1
    <3>2. CASE q # p
      <4>1. stored[q] = [k \in AnyKey |-> stored[q][k]]
        BY <1>2
      <4> QED
        BY <1>6, <3>2, <4>1
    <3> QED
      BY <3>1, <3>2
  <2>2. AfterWrite(p) = [q \in PartitionIDs |-> AfterWrite(p)[q]]
    BY <1>2, <1>5
  <2> QED
    BY <2>1, <2>2, Zenon
<1>8. ASSUME NEW j \in DOMAIN batch, PartitionIDOf[batch[j].key] = p, LastAt(batch, j, Len(batch))
      PROVE  AfterWrite(p)[p][batch[j].key] = batch[j].value
  <2>1. PICK i \in DOMAIN s : LastAt(s, i, Len(s)) /\ s[i] = batch[j]
    BY <1>1, <1>8 DEF IsGroup, LastAt
  <2>2. StoreAll(values, s)[s[i].key] = s[i].value
    BY <1>1, <1>4, <2>1 DEF n
  <2> QED
    BY <1>6, <2>1, <2>2
<1> QED
  BY <1>6, <1>7, <1>8

\* What is the same after every future.
LEMMA FutureFacts ==
  ASSUME BatchInv, NEW p \in PartitionIDs, FutureSucceeds(p) \/ FutureFails(p)
  PROVE  /\ batchAt = "sending" /\ groups[p] # <<>> /\ UNCHANGED <<batch, doing, batchAt>>
         /\ DOMAIN groups' = PartitionIDs /\ groups' = [q \in PartitionIDs |-> groups'[q]]
         /\ groups'[p] = <<>> /\ \A q \in PartitionIDs : q # p => groups'[q] = groups[q]
         /\ stored' \in {stored} \cup (IF doing = "put" THEN {AfterWrite(p)} ELSE {})
         /\ stored' = [q \in PartitionIDs |-> [k \in AnyKey |-> stored'[q][k]]]
         /\ \A q \in PartitionIDs : q # p => stored'[q] = stored[q]
         /\ BatchIsWhole'
<1>1. /\ batchAt = "sending" /\ groups[p] # <<>> /\ UNCHANGED <<batch, doing, batchAt>>
      /\ groups' = [groups EXCEPT ![p] = <<>>]
      /\ stored' \in {stored} \cup (IF doing = "put" THEN {AfterWrite(p)} ELSE {})
  BY DEF FutureSucceeds, FutureFails
<1>2. groups = [q \in PartitionIDs |-> groups[q]]
  BY <1>1 DEF BatchInv, Sending
<1>3. /\ DOMAIN groups' = PartitionIDs /\ groups' = [q \in PartitionIDs |-> groups'[q]]
      /\ groups'[p] = <<>> /\ \A q \in PartitionIDs : q # p => groups'[q] = groups[q]
  BY <1>1, <1>2
<1>4. /\ stored' = [q \in PartitionIDs |-> [k \in AnyKey |-> stored'[q][k]]]
      /\ \A q \in PartitionIDs : q # p => stored'[q] = stored[q]
  <2>1. CASE stored' = stored
    BY <2>1 DEF BatchInv, BatchTyped
  <2>2. CASE stored' = AfterWrite(p)
    BY <1>1, <2>2, WriteFacts DEF BatchInv
  <2> QED
    BY <1>1, <2>1, <2>2
<1> QED
  BY <1>1, <1>3, <1>4 DEF BatchIsWhole

LEMMA SucceedsStep ==
  ASSUME BatchInv, NEW p \in PartitionIDs, FutureSucceeds(p)
  PROVE  BatchInv'
<1> USE FutureFacts
<1> DEFINE Answer == Success(IF doing = "put" THEN <<>> ELSE ReadAll(stored[p], groups[p]))
           F == [ok : BOOLEAN, entries : Seq(Found)]
           n == Len(futures) + 1
<1>0. batchAt = "sending" /\ groups[p] # <<>> /\ BatchTyped /\ Sending /\ doing \in {"put", "get"}
  BY DEF BatchInv, Sending
<1>1. /\ Len(groups[p]) \in Nat /\ DOMAIN groups[p] = 1..Len(groups[p])
      /\ IsGroup(groups[p], p, batch, Len(batch))
      /\ \A i \in DOMAIN groups[p] : \E j \in DOMAIN batch : groups[p][i] = batch[j]
      /\ \A i \in DOMAIN groups[p] : groups[p][i].key \in AnyKey
      /\ DOMAIN batch = 1..Len(batch)
  <2>1. batch \in Batches /\ ~HasNil(batch, doing)
    BY <1>0 DEF BatchTyped, Sending
  <2>2. DOMAIN batch = 1..Len(batch)
    BY <2>1, CallFacts
  <2> QED
    BY <1>0, <2>2, GroupEntries
\* What a GetAll reads.
<1>2. ASSUME doing = "get"
      PROVE  /\ ReadAll(stored[p], groups[p]) \in Seq(Found)
             /\ \A e \in ToSet(ReadAll(stored[p], groups[p])) : Asked(e)
             /\ \A j \in DOMAIN batch : PartitionIDOf[batch[j].key] = p /\ batch[j].key \in DOMAIN Stored0 =>
                  Held(batch[j].key) \in ToSet(ReadAll(stored[p], groups[p]))
  <2> DEFINE s == groups[p]
             values == stored[p]
             m == Len(s)
             X == {[key |-> k, value |-> values[k]] : k \in AnyKey}
  <2>1. values = [k \in AnyKey |-> IF PartitionIDOf[k] = p /\ k \in DOMAIN Stored0 THEN Stored0[k] ELSE NilValue]
    BY <1>0, <1>2 DEF Sending, AtFirst
  <2>2. ASSUME NEW i \in 1..m PROVE s[i].key \in AnyKey /\ PartitionIDOf[s[i].key] \in PartitionIDs
    BY <1>1, BatchAssumption
  <2>3. /\ m \in Nat /\ DOMAIN s = 1..m
        /\ \A i \in DOMAIN s : \E j \in DOMAIN batch : s[i] = batch[j]
        /\ \A j \in DOMAIN batch : PartitionIDOf[batch[j].key] = p => \E i \in DOMAIN s : s[i] = batch[j]
    BY <1>1 DEF IsGroup
  <2> DEFINE Y == Found \cup X
  <2>4. \A i \in 1..m : [key |-> s[i].key, value |-> values[s[i].key]] \in Y
    BY <2>2
  <2> HIDE DEF s, values, m, Y
  <2>5. /\ ReadAll(values, s) \in Seq(Y)
        /\ \A e : e \in ToSet(ReadAll(values, s)) <=>
              \E i \in 1..m : values[s[i].key] # NilValue /\ e = [key |-> s[i].key, value |-> values[s[i].key]]
    <3>1. m \in Nat /\ DOMAIN s = 1..m
      BY <2>3
    <3> QED
      BY <2>4, <3>1, ReadFacts, SMTT(30)
  <2>6. ASSUME NEW i \in 1..m, values[s[i].key] # NilValue
        PROVE  s[i].key \in DOMAIN Stored0 /\ values[s[i].key] = Stored0[s[i].key]
    BY <2>1, <2>2, <2>6
  <2>7. ASSUME NEW e \in ToSet(ReadAll(values, s)) PROVE Asked(e)
    <3>1. PICK i \in 1..m : values[s[i].key] # NilValue /\ e = [key |-> s[i].key, value |-> values[s[i].key]]
      BY <2>5
    <3>2. PICK j \in DOMAIN batch : s[i] = batch[j]
      BY <2>3
    <3> QED
      BY <2>6, <3>1, <3>2 DEF Asked, Held
  <2>8. ASSUME NEW j \in DOMAIN batch, PartitionIDOf[batch[j].key] = p, batch[j].key \in DOMAIN Stored0
        PROVE  Held(batch[j].key) \in ToSet(ReadAll(values, s))
    <3>1. PICK i \in 1..m : s[i] = batch[j]
      BY <2>3, <2>8
    <3>2. values[s[i].key] = Stored0[s[i].key] /\ Stored0[s[i].key] # NilValue
      BY <2>1, <2>2, <2>8, <3>1, BatchAssumption
    <3> QED
      BY <2>5, <3>1, <3>2 DEF Held
  <2>9. ReadAll(values, s) \in Seq(Found)
    <3>1. ReadAll(values, s) \in Seq(Y)
      BY <2>5
    <3>2. \A e \in ToSet(ReadAll(values, s)) : e \in Found
      <4>1. ASSUME NEW k \in DOMAIN Stored0 PROVE Held(k) \in Found
        BY BatchAssumption DEF Held, Found
      <4> QED
        BY <2>7, <4>1 DEF Asked
    <3> DEFINE r == ReadAll(values, s)
    <3>3. r \in Seq(Y) /\ \A i \in DOMAIN r : r[i] \in Found
      BY <3>1, <3>2 DEF ToSet
    <3> HIDE DEF r
    <3>4. r \in Seq(Found)
      BY <3>3
    <3> QED
      BY <3>4 DEF r
  <2> QED
    BY <2>7, <2>8, <2>9 DEF s, values
<1>3. Answer \in F /\ Answer.ok /\ (doing = "get" => Answer.entries = ReadAll(stored[p], groups[p]))
  <2>1. <<>> \in Seq(Found)
    OBVIOUS
  <2> QED
    BY <1>0, <1>2, <2>1 DEF Success
<1>4. futures' = Append(futures, Answer) /\ futures \in Seq(F)
  BY <1>0 DEF FutureSucceeds, BatchTyped
<1>5. /\ futures' \in Seq(F) /\ n \in DOMAIN futures' /\ futures'[n] = Answer
      /\ \A i : i \in DOMAIN futures' <=> i \in DOMAIN futures \/ i = n
      /\ \A i \in DOMAIN futures : i \in DOMAIN futures' /\ futures'[i] = futures[i]
  <2> HIDE DEF Answer, F
  <2> QED
    BY <1>3, <1>4
<1> HIDE DEF Answer, n
<1>6. BatchTyped'
  BY <1>0, <1>5 DEF BatchTyped
<1>7. ASSUME AllOk', NEW q \in PartitionIDs, groups'[q] = <<>> PROVE Served(q)'
  <2>1. AllOk
    BY <1>5, <1>7 DEF AllOk
  <2>2. ASSUME NEW j \in DOMAIN batch, PartitionIDOf[batch[j].key] = q, doing = "put", LastAt(batch, j, Len(batch))
        PROVE  stored'[q][batch[j].key] = batch[j].value
    <3>1. CASE q = p
      <4>1. stored' = AfterWrite(p)
        BY <2>2 DEF FutureSucceeds
      <4> QED
        BY <1>0, <2>2, <3>1, <4>1, WriteFacts
    <3>2. CASE q # p
      BY <1>0, <1>7, <2>1, <2>2, <3>2 DEF Sending, Served
    <3> QED
      BY <3>1, <3>2
  <2>3. ASSUME NEW j \in DOMAIN batch, PartitionIDOf[batch[j].key] = q, doing # "put", batch[j].key \in DOMAIN Stored0
        PROVE  \E i \in DOMAIN futures' : Held(batch[j].key) \in ToSet(futures'[i].entries)
    <3>1. CASE q = p
      BY <1>0, <1>2, <1>3, <1>5, <2>3, <3>1
    <3>2. CASE q # p
      <4>1. \E i \in DOMAIN futures : Held(batch[j].key) \in ToSet(futures[i].entries)
        BY <1>0, <1>7, <2>1, <2>3, <3>2 DEF Sending, Served
      <4> QED
        BY <1>5, <4>1
    <3> QED
      BY <3>1, <3>2
  <2> QED
    BY <1>0, <2>2, <2>3 DEF Served
<1>8. ASSUME doing = "get" PROVE stored' = AtFirst /\ \A i \in DOMAIN futures' : \A e \in ToSet(futures'[i].entries) : Asked(e)'
  <2>1. \A e : Asked(e)' <=> Asked(e)
    BY <1>0 DEF Asked
  <2>2. ASSUME NEW i \in DOMAIN futures', NEW e \in ToSet(futures'[i].entries) PROVE Asked(e)
    <3>1. CASE i = n
      BY <1>2, <1>3, <1>5, <1>8, <2>2, <3>1
    <3>2. CASE i \in DOMAIN futures
      BY <1>0, <1>5, <1>8, <2>2, <3>2 DEF Sending
    <3> QED
      BY <1>5, <3>1, <3>2
  <2> QED
    BY <1>0, <1>8, <2>1, <2>2 DEF Sending
<1>9. \A q \in PartitionIDs : groups'[q] \in {<<>>, partitionToPairs(batch)[q]}
  BY <1>0 DEF Sending
<1>10. Sending'
  <2>1. ~HasNil(batch, doing)
    BY <1>0 DEF Sending
  <2> QED
    BY <1>0, <1>7, <1>8, <1>9, <2>1 DEF Sending
<1> QED
  BY <1>6, <1>10 DEF BatchInv

LEMMA FailsStep ==
  ASSUME BatchInv, NEW p \in PartitionIDs, FutureFails(p)
  PROVE  BatchInv'
<1> USE FutureFacts
<1> DEFINE F == [ok : BOOLEAN, entries : Seq(Found)]
           n == Len(futures) + 1
<1>0. batchAt = "sending" /\ groups[p] # <<>> /\ BatchTyped /\ Sending /\ doing \in {"put", "get"}
  BY DEF BatchInv, Sending
<1>1. Failed \in F /\ ~Failed.ok /\ Failed.entries = <<>> /\ ToSet(<<>>) = {}
  BY DEF Failed, ToSet
<1>2. futures' = Append(futures, Failed) /\ futures \in Seq(F)
  BY <1>0 DEF FutureFails, BatchTyped
<1>3. /\ futures' \in Seq(F) /\ n \in DOMAIN futures' /\ futures'[n] = Failed
      /\ \A i : i \in DOMAIN futures' <=> i \in DOMAIN futures \/ i = n
      /\ \A i \in DOMAIN futures : i \in DOMAIN futures' /\ futures'[i] = futures[i]
  <2> HIDE DEF F
  <2> QED
    BY <1>1, <1>2
<1> HIDE DEF n
<1>4. BatchTyped'
  BY <1>0, <1>3 DEF BatchTyped
<1>5. ~AllOk'
  BY <1>1, <1>3 DEF AllOk
<1>6. ASSUME doing = "get" PROVE stored' = AtFirst /\ \A i \in DOMAIN futures' : \A e \in ToSet(futures'[i].entries) : Asked(e)'
  <2>1. \A e : Asked(e)' <=> Asked(e)
    BY <1>0 DEF Asked
  <2>2. ASSUME NEW i \in DOMAIN futures', NEW e \in ToSet(futures'[i].entries) PROVE Asked(e)
    <3>1. CASE i = n
      BY <1>1, <1>3, <2>2, <3>1
    <3>2. CASE i \in DOMAIN futures
      BY <1>0, <1>3, <1>6, <2>2, <3>2 DEF Sending
    <3> QED
      BY <1>3, <3>1, <3>2
  <2> QED
    BY <1>0, <1>6, <2>1, <2>2 DEF Sending
<1>7. \A q \in PartitionIDs : groups'[q] \in {<<>>, partitionToPairs(batch)[q]}
  BY <1>0 DEF Sending
<1>8. Sending'
  <2>1. ~HasNil(batch, doing)
    BY <1>0 DEF Sending
  <2> QED
    BY <1>0, <1>5, <1>6, <1>7, <2>1 DEF Sending
<1> QED
  BY <1>4, <1>8 DEF BatchInv

LEMMA JoinStep == BatchInv /\ JoinFutures => BatchInv'
<1> SUFFICES ASSUME BatchInv, JoinFutures PROVE BatchInv'
  OBVIOUS
<1>1. /\ batchAt = "sending" /\ batchAt' = "returned" /\ UNCHANGED <<batch, doing, groups, futures, stored>>
      /\ \A p \in PartitionIDs : groups[p] = <<>>
      /\ BatchTyped /\ Sending
  BY DEF JoinFutures, BatchInv
<1>2. batch \in Batches /\ ~HasNil(batch, doing)
  BY <1>1 DEF BatchTyped, Sending
<1>3. /\ Len(batch) \in Nat /\ DOMAIN batch = 1..Len(batch)
      /\ \A j \in DOMAIN batch : batch[j].key \in AnyKey /\ PartitionIDOf[batch[j].key] \in PartitionIDs
  BY <1>2, CallFacts
<1>4. BatchTyped' /\ Sending'
  BY <1>1 DEF BatchTyped, Sending
<1>5. CASE ~AllOk
  <2>1. ~batchResult'.ok
    BY <1>5 DEF JoinFutures, AllOk, Failed
  <2>2. BatchIsWhole'
    BY <1>1, <1>2, <2>1 DEF BatchIsWhole
  <2> QED
    BY <1>4, <2>2 DEF BatchInv
<1>6. CASE AllOk
  <2> DEFINE s == [n \in DOMAIN futures |-> futures[n].entries]
             keys == {batch[n].key : n \in DOMAIN batch} \cap DOMAIN Stored0
  <2>1. batchResult'.ok /\ batchResult'.entries = FlattenSeq(s) /\ ~(\E n \in DOMAIN futures : ~futures[n].ok)
    BY <1>6 DEF JoinFutures, AllOk, Success
  <2>2. \A p \in PartitionIDs : Served(p)
    BY <1>1, <1>6 DEF Sending
  <2>3. ASSUME doing = "put", NEW n \in DOMAIN batch
        PROVE  stored[PartitionIDOf[batch[n].key]][batch[n].key] = LastValue(batch[n].key)
    <3> DEFINE k == batch[n].key
               at == {m \in DOMAIN batch : batch[m].key = k}
    <3>0. n \in 1..Len(batch)
      BY <1>3
    <3>1. PICK m \in 1..Len(batch) : LastAt(batch, m, Len(batch)) /\ batch[m].key = k
      BY <1>3, <3>0, LastExists
    <3>2. m \in at /\ (\A x \in at : x <= m) /\ \A x \in at : (\A y \in at : y <= x) => x = m
      BY <1>3, <3>1 DEF LastAt
    <3>3. LastValue(k) = batch[m].value
      <4>1. (CHOOSE x \in at : \A y \in at : y <= x) = m
        <5> HIDE DEF at
        <5> QED
          BY <3>2
      <4> QED
        BY <4>1 DEF LastValue
    <3>4. stored[PartitionIDOf[k]][k] = batch[m].value
      BY <1>3, <2>2, <2>3, <3>1 DEF Served
    <3> QED
      BY <3>3, <3>4
  <2>4. ASSUME doing = "get" PROVE ToSet(FlattenSeq(s)) = {[key |-> k, value |-> Stored0[k]] : k \in keys}
    <3>1. s \in Seq(Seq(Found)) /\ DOMAIN s = DOMAIN futures
      <4> DEFINE F == [ok : BOOLEAN, entries : Seq(Found)]
      <4>1. futures \in Seq(F)
        BY <1>1 DEF BatchTyped
      <4>2. Len(futures) \in Nat /\ DOMAIN futures = 1..Len(futures) /\ \A n \in DOMAIN futures : futures[n] \in F
        <5> HIDE DEF F
        <5> QED
          BY <4>1
      <4> QED
        BY <4>2
    <3>2. \A e : e \in ToSet(FlattenSeq(s)) <=> \E n \in DOMAIN s : e \in ToSet(s[n])
      <4> HIDE DEF s
      <4> QED
        BY <3>1, FlattenFacts
    <3>3. \A e : e \in ToSet(FlattenSeq(s)) <=> \E n \in DOMAIN futures : e \in ToSet(futures[n].entries)
      BY <3>1, <3>2
    <3>4. ASSUME NEW e \in ToSet(FlattenSeq(s)) PROVE \E k \in keys : e = [key |-> k, value |-> Stored0[k]]
      <4>1. Asked(e)
        BY <1>1, <2>4, <3>3 DEF Sending
      <4> QED
        BY <4>1 DEF Asked, Held
    <3>5. ASSUME NEW k \in keys PROVE [key |-> k, value |-> Stored0[k]] \in ToSet(FlattenSeq(s))
      <4>1. PICK j \in DOMAIN batch : batch[j].key = k
        OBVIOUS
      <4>2. \E n \in DOMAIN futures : Held(k) \in ToSet(futures[n].entries)
        BY <1>3, <2>2, <2>4, <4>1 DEF Served
      <4> QED
        BY <3>3, <4>2 DEF Held
    <3> HIDE DEF keys, s
    <3> QED
      BY <3>4, <3>5
  <2>5. BatchIsWhole'
    <3> HIDE DEF s
    <3>1. doing = "put" => \A n \in DOMAIN batch :
            stored[PartitionIDOf[batch[n].key]][batch[n].key] = LastValue(batch[n].key)
      BY <2>3
    <3>2. \A k : LastValue(k)' = LastValue(k)
      BY <1>1 DEF LastValue
    <3> QED
      BY <1>1, <1>2, <2>1, <2>4, <3>1, <3>2 DEF BatchIsWhole
  <2> QED
    BY <1>4, <2>5 DEF BatchInv
<1> QED
  BY <1>5, <1>6

LEMMA BatchStepInv == BatchInv /\ [BatchNext]_batchVars => BatchInv'
<1> SUFFICES ASSUME BatchInv, [BatchNext]_batchVars PROVE BatchInv'
  OBVIOUS
<1>1. CASE BatchNext
  BY <1>1, CallStep, SucceedsStep, FailsStep, JoinStep DEF BatchNext
<1>2. CASE UNCHANGED batchVars
  <2>1. UNCHANGED <<batch, doing, batchAt, groups, futures, batchResult, stored>>
    BY <1>2 DEF batchVars
  <2>2. BatchTyped'
    BY <2>1 DEF BatchInv, BatchTyped
  <2>3. Sending'
    <3>1. (AllOk' <=> AllOk) /\ \A x : (Served(x)' <=> Served(x)) /\ (Asked(x)' <=> Asked(x))
      BY <2>1 DEF AllOk, Served, Asked
    <3> QED
      BY <2>1, <3>1 DEF BatchInv, Sending
  <2>4. BatchIsWhole'
    <3>1. \A k : LastValue(k)' = LastValue(k)
      BY <2>1 DEF LastValue
    <3> QED
      BY <2>1, <3>1 DEF BatchInv, BatchIsWhole
  <2> QED
    BY <2>2, <2>3, <2>4 DEF BatchInv
<1> QED
  BY <1>1, <1>2

(***************************************************************************)
(* PutAll and GetAll, for any batch and any partitions: a call that        *)
(* reports success has stored the last value of every key at the member of *)
(* its partition, or has returned every entry the members hold for its     *)
(* keys and no other; a batch with a nil entry has changed nothing         *)
(* (proxy.putAll, Map.getAllFromRemote).                                   *)
(***************************************************************************)
THEOREM BatchesAreWhole == BatchSpec => []BatchIsWhole
<1>1. BatchInv => BatchIsWhole
  BY DEF BatchInv
<1> QED
  BY <1>1, BatchInitInv, BatchStepInv, PTL DEF BatchSpec

---------------------------------------------------------------------------
(***************************************************************************)
(* The message reader.  Every frame has its place in the stream of bytes;  *)
(* the buffer and what is still to be read are the bytes from the place    *)
(* that the reader has reached.                                            *)
(***************************************************************************)
\* The first n sequences of s, joined.
Joined(s, n) == FlattenSeq([i \in 1..n |-> s[i]])

\* Joining goes on where it was.
LEMMA JoinedFacts ==
  ASSUME NEW X, NEW s, NEW n \in Nat, \A i \in 1..n : s[i] \in Seq(X)
  PROVE  /\ Joined(s, 0) = <<>>
         /\ \A k \in 0..n : Joined(s, k) \in Seq(X) /\ Starts(Joined(s, k), Joined(s, n))
         /\ \A k \in 1..n : Joined(s, k) = Joined(s, k - 1) \o s[k]
<1>1. ASSUME NEW k \in 0..n PROVE \E j : Joins(j, s, k) /\ Joined(s, k) = j[k]
  <2> DEFINE t == [i \in 1..k |-> s[i]]
  <2>1. t \in Seq(Seq(X)) /\ Len(t) = k /\ \A i \in 1..k : t[i] = s[i]
    OBVIOUS
  <2>2. PICK j : Joins(j, t, Len(t)) /\ FlattenSeq(t) = j[Len(t)]
    <3> HIDE DEF t
    <3> QED
      BY <2>1, FlattenSteps
  <2>3. Joins(j, s, k) /\ Joined(s, k) = j[k]
    <3>1. FlattenSeq(t) = Joined(s, k)
      BY DEF Joined
    <3> HIDE DEF t
    <3> QED
      BY <2>1, <2>2, <3>1 DEF Joins
  <2> QED
    BY <2>3
<1>2. PICK j : Joins(j, s, n) /\ Joined(s, n) = j[n]
  BY <1>1
<1>4. ASSUME NEW k \in 0..n, NEW h, Joins(h, s, k) PROVE h[k] = j[k]
  <2> DEFINE R == {x \in Nat : x <= k => h[x] = j[x]}
  <2>1. 0 \in R
    BY <1>2, <1>4 DEF Joins
  <2>2. ASSUME NEW x \in Nat, x \in R PROVE x + 1 \in R
    <3>1. SUFFICES ASSUME x + 1 <= k PROVE h[x + 1] = j[x + 1]
      OBVIOUS
    <3>2. x + 1 \in 1..k /\ x + 1 \in 1..n /\ (x + 1) - 1 = x /\ h[x] = j[x]
      BY <2>2, <3>1
    <3>3. h[x + 1] = h[(x + 1) - 1] \o s[x + 1] /\ j[x + 1] = j[(x + 1) - 1] \o s[x + 1]
      BY <1>2, <1>4, <3>2 DEF Joins
    <3> QED
      BY <3>2, <3>3
  <2> HIDE DEF R
  <2>3. Nat \subseteq R
    BY <2>1, <2>2, SetInduction
  <2> QED
    BY <2>3 DEF R
<1>5. ASSUME NEW k \in 0..n PROVE Joined(s, k) = j[k]
  BY <1>1, <1>4
<1>6. Joined(s, 0) = <<>>
  BY <1>2, <1>5 DEF Joins
<1>7. ASSUME NEW k \in 0..n PROVE Joined(s, k) \in Seq(X) /\ Starts(Joined(s, k), Joined(s, n))
  <2>1. n \in 0..n
    OBVIOUS
  <2>2. j[k] \in Seq(X)
    BY <1>2, JoinFacts
  <2>3. Starts(j[k], j[n])
    BY <1>2, <2>1, JoinFacts
  <2> QED
    BY <1>5, <2>1, <2>2, <2>3
<1>8. ASSUME NEW k \in 1..n PROVE Joined(s, k) = Joined(s, k - 1) \o s[k]
  <2>1. k \in 0..n /\ k - 1 \in 0..n
    OBVIOUS
  <2>2. j[k] = j[k - 1] \o s[k]
    BY <1>2 DEF Joins
  <2> QED
    BY <1>5, <2>1, <2>2
<1> QED
  BY <1>6, <1>7, <1>8

\* The bytes of the stream, its frames and their places.
Cells           == [v : Seq(Nat), i : Nat]
FrameOf(k, i)   == Frames(k, stream[k])[i]
FrameCount(k)   == Len(stream[k].frames)
ContentLength(k, i) == stream[k].frames[i]
FramesOf(k)     == [i \in DOMAIN stream[k].frames |-> FrameBytes(FrameOf(k, i))]
Messages        == [k \in DOMAIN stream |-> MessageBytes(k, stream[k])]
Total           == FlattenSeq(Messages)
Before(k)       == FlattenSeq([j \in 1..k |-> MessageBytes(j, stream[j])])
Offset(k, i)    == Len(Before(k - 1)) + Len(Joined(FramesOf(k), i - 1))

StreamTyped == stream \in Streams

LEMMA StreamFacts ==
  ASSUME StreamTyped
  PROVE  /\ Len(stream) \in Nat /\ DOMAIN stream = 1..Len(stream)
         /\ \A k \in 1..Len(stream) :
              /\ stream[k].whole \in BOOLEAN
              /\ FrameCount(k) \in Nat \ {0} /\ DOMAIN stream[k].frames = 1..FrameCount(k)
              /\ \A i \in 1..FrameCount(k) : ContentLength(k, i) \in Nat
<1> DEFINE M == [frames : Seq(Nat) \ {<<>>}, whole : BOOLEAN]
<1>1. stream \in Seq(M)
  BY StreamsAssumption DEF StreamTyped
<1>2. Len(stream) \in Nat /\ DOMAIN stream = 1..Len(stream) /\ \A k \in 1..Len(stream) : stream[k] \in M
  <2> HIDE DEF M
  <2> QED
    BY <1>1
<1>3. ASSUME NEW k \in 1..Len(stream)
      PROVE  /\ stream[k].whole \in BOOLEAN
             /\ FrameCount(k) \in Nat \ {0} /\ DOMAIN stream[k].frames = 1..FrameCount(k)
             /\ \A i \in 1..FrameCount(k) : ContentLength(k, i) \in Nat
  <2>1. stream[k].whole \in BOOLEAN /\ stream[k].frames \in Seq(Nat) /\ stream[k].frames # <<>>
    BY <1>2
  <2> QED
    BY <2>1 DEF FrameCount, ContentLength
<1> QED
  BY <1>2, <1>3

\* The bytes of a value.
LEMMA CellFacts ==
  ASSUME NEW v \in Seq(Nat), NEW w \in Nat
  PROVE  /\ CellsOf(v, w) \in Seq(Cells) /\ Len(CellsOf(v, w)) = w
         /\ \A x \in 1..w : CellsOf(v, w)[x] = Cell(v, x - 1)
  BY DEF CellsOf, Cell, Cells

\* The bytes of a frame: four of its length, two of its flags, and its content.
LEMMA FrameFacts ==
  ASSUME StreamTyped, NEW k \in 1..Len(stream), NEW i \in 1..FrameCount(k)
  PROVE  /\ FrameOf(k, i) = [flags |-> FrameFlags(i, stream[k]), content |-> CellsOf(<<k, i>>, ContentLength(k, i))]
         /\ FramesOf(k)[i] \in Seq(Cells) /\ Len(FramesOf(k)[i]) = 6 + ContentLength(k, i)
         /\ \A x \in 1..4 : FramesOf(k)[i][x] = Cell(<<ContentLength(k, i) + 6>>, x - 1)
         /\ \A x \in 1..2 : FramesOf(k)[i][4 + x] = Cell(<<FrameFlags(i, stream[k])>>, x - 1)
         /\ \A x \in 1..ContentLength(k, i) : FramesOf(k)[i][6 + x] = Cell(<<k, i>>, x - 1)
<1> DEFINE l == ContentLength(k, i)
           f == FrameFlags(i, stream[k])
           a == CellsOf(<<l + 6>>, 4)
           b == CellsOf(<<f>>, 2)
           c == CellsOf(<<k, i>>, l)
<1>1. /\ k \in Nat /\ i \in Nat /\ l \in Nat /\ stream[k].whole \in BOOLEAN /\ i \in DOMAIN stream[k].frames
      /\ Len(stream) \in Nat
  BY StreamFacts
<1>2. FrameOf(k, i) = [flags |-> f, content |-> c]
  BY <1>1 DEF FrameOf, Frames, ContentLength
<1>3. f \in Nat
  BY <1>1 DEF FrameFlags, NoFlags, FinalFlag, FragmentFlags
<1>4. <<l + 6>> \in Seq(Nat) /\ <<f>> \in Seq(Nat) /\ <<k, i>> \in Seq(Nat)
  BY <1>1, <1>3
<1> HIDE DEF l, f
<1>5. /\ a \in Seq(Cells) /\ Len(a) = 4 /\ \A x \in 1..4 : a[x] = Cell(<<l + 6>>, x - 1)
      /\ b \in Seq(Cells) /\ Len(b) = 2 /\ \A x \in 1..2 : b[x] = Cell(<<f>>, x - 1)
      /\ c \in Seq(Cells) /\ Len(c) = l /\ \A x \in 1..l : c[x] = Cell(<<k, i>>, x - 1)
  BY <1>1, <1>4, CellFacts
<1>6. FramesOf(k)[i] = (a \o b) \o c
  <2>1. FramesOf(k)[i] = FrameBytes([flags |-> f, content |-> c])
    BY <1>1, <1>2 DEF FramesOf
  <2>2. Width["Int"] = 4 /\ Width["Short"] = 2 /\ SizeOfFrameLengthAndFlags = 6
    BY DEF Width, SizeOfFrameLengthAndFlags
  <2> HIDE DEF c
  <2> QED
    BY <1>5, <2>1, <2>2 DEF FrameBytes
<1> HIDE DEF a, b, c
<1>7. /\ a \o b \in Seq(Cells) /\ Len(a \o b) = 6
      /\ \A x \in 1..4 : (a \o b)[x] = a[x]
      /\ \A x \in 1..2 : (a \o b)[4 + x] = b[x]
  <2>1. a \in Seq(Cells) /\ b \in Seq(Cells) /\ Len(a) = 4 /\ Len(b) = 2
    BY <1>5
  <2>2. /\ a \o b \in Seq(Cells) /\ Len(a \o b) = Len(a) + Len(b)
        /\ \A x \in 1..Len(a) : (a \o b)[x] = a[x]
        /\ \A x \in 1..Len(b) : (a \o b)[Len(a) + x] = b[x]
    <3>1. a \in Seq(Cells) /\ b \in Seq(Cells)
      BY <2>1
    <3> QED
      BY <3>1
  <2> QED
    BY <2>1, <2>2
<1> DEFINE d == a \o b
<1>8. d \in Seq(Cells) /\ Len(d) = 6
  BY <1>7
<1> HIDE DEF d
<1>9. /\ d \o c \in Seq(Cells) /\ Len(d \o c) = 6 + l
      /\ \A x \in 1..6 : (d \o c)[x] = d[x]
      /\ \A x \in 1..l : (d \o c)[6 + x] = c[x]
  <2>1. c \in Seq(Cells) /\ Len(c) = l
    BY <1>5
  <2>2. /\ d \o c \in Seq(Cells) /\ Len(d \o c) = Len(d) + Len(c)
        /\ \A x \in 1..Len(d) : (d \o c)[x] = d[x]
        /\ \A x \in 1..Len(c) : (d \o c)[Len(d) + x] = c[x]
    <3>1. d \in Seq(Cells) /\ c \in Seq(Cells)
      BY <1>8, <2>1
    <3> QED
      BY <3>1
  <2> QED
    BY <1>8, <2>1, <2>2
<1>10. (\A x \in 1..4 : x \in 1..6) /\ (\A x \in 1..2 : 4 + x \in 1..6)
  OBVIOUS
<1>11. \A x \in 1..4 : FramesOf(k)[i][x] = Cell(<<l + 6>>, x - 1)
  <2>1. \A x \in 1..4 : d[x] = a[x]
    BY <1>7 DEF d
  <2>2. \A x \in 1..4 : (d \o c)[x] = d[x]
    BY <1>9, <1>10
  <2> QED
    BY <1>5, <1>6, <2>1, <2>2 DEF d
<1>12. \A x \in 1..2 : FramesOf(k)[i][4 + x] = Cell(<<f>>, x - 1)
  <2>1. \A x \in 1..2 : d[4 + x] = b[x]
    BY <1>7 DEF d
  <2>2. \A x \in 1..2 : (d \o c)[4 + x] = d[4 + x]
    BY <1>9, <1>10
  <2> QED
    BY <1>5, <1>6, <2>1, <2>2 DEF d
<1>13. \A x \in 1..l : FramesOf(k)[i][6 + x] = Cell(<<k, i>>, x - 1)
  BY <1>5, <1>6, <1>9 DEF d
<1>14. FramesOf(k)[i] \in Seq(Cells) /\ Len(FramesOf(k)[i]) = 6 + l
  BY <1>6, <1>9 DEF d
<1> QED
  BY <1>2, <1>11, <1>12, <1>13, <1>14 DEF l, f, c

\* Where messages and frames are.
LEMMA MessageFacts ==
  ASSUME StreamTyped, NEW k \in 1..Len(stream)
  PROVE  /\ \A i \in 1..FrameCount(k) : FramesOf(k)[i] \in Seq(Cells)
         /\ MessageBytes(k, stream[k]) = Joined(FramesOf(k), FrameCount(k))
         /\ MessageBytes(k, stream[k]) \in Seq(Cells)
<1>1. FrameCount(k) \in Nat /\ DOMAIN stream[k].frames = 1..FrameCount(k)
  BY StreamFacts
<1>2. \A i \in 1..FrameCount(k) : FramesOf(k)[i] \in Seq(Cells)
  BY FrameFacts
<1>3. FramesOf(k) = [i \in 1..FrameCount(k) |-> FramesOf(k)[i]]
  BY <1>1 DEF FramesOf
<1>4. MessageBytes(k, stream[k]) = Joined(FramesOf(k), FrameCount(k))
  <2>1. MessageBytes(k, stream[k]) = FlattenSeq(FramesOf(k))
    BY DEF MessageBytes, FramesOf, FrameOf
  <2> QED
    BY <1>3, <2>1 DEF Joined
<1>5. FrameCount(k) \in 0..FrameCount(k)
  BY <1>1
<1>6. Joined(FramesOf(k), FrameCount(k)) \in Seq(Cells)
  BY <1>1, <1>2, <1>5, JoinedFacts
<1> QED
  BY <1>2, <1>4, <1>6

LEMMA BeforeFacts ==
  ASSUME StreamTyped
  PROVE  /\ Before(0) = <<>> /\ Before(Len(stream)) = Total /\ Total \in Seq(Cells)
         /\ \A k \in 0..Len(stream) : Before(k) \in Seq(Cells) /\ Starts(Before(k), Total)
         /\ \A k \in 0..Len(stream) : \A j \in 0..k : Len(Before(j)) <= Len(Before(k))
         /\ \A k \in 1..Len(stream) : Before(k) = Before(k - 1) \o MessageBytes(k, stream[k])
<1> DEFINE n == Len(stream)
<1>1. n \in Nat /\ DOMAIN stream = 1..n
  BY StreamFacts
<1>2. \A k \in 1..n : Messages[k] = MessageBytes(k, stream[k]) /\ Messages[k] \in Seq(Cells)
  BY <1>1, MessageFacts DEF Messages
<1>3. ASSUME NEW k \in 0..n PROVE Before(k) = Joined(Messages, k)
  <2>1. \A i \in 1..k : i \in 1..n
    BY <1>1
  <2>2. [j \in 1..k |-> MessageBytes(j, stream[j])] = [j \in 1..k |-> Messages[j]]
    BY <1>2, <2>1
  <2> QED
    BY <2>2 DEF Before, Joined
<1>4. Total = Joined(Messages, n)
  <2>1. Messages = [k \in 1..n |-> Messages[k]]
    BY <1>1 DEF Messages
  <2> QED
    BY <2>1 DEF Total, Joined
<1> HIDE DEF n
<1>5. /\ Joined(Messages, 0) = <<>>
      /\ \A k \in 0..n : Joined(Messages, k) \in Seq(Cells) /\ Starts(Joined(Messages, k), Joined(Messages, n))
      /\ \A k \in 1..n : Joined(Messages, k) = Joined(Messages, k - 1) \o Messages[k]
  BY <1>1, <1>2, JoinedFacts
<1>6. ASSUME NEW k \in 0..n, NEW j \in 0..k PROVE Len(Joined(Messages, j)) <= Len(Joined(Messages, k))
  <2>1. k \in Nat /\ \A i \in 1..k : Messages[i] \in Seq(Cells)
    BY <1>1, <1>2
  <2>2. Starts(Joined(Messages, j), Joined(Messages, k))
    BY <2>1, JoinedFacts
  <2> QED
    BY <2>2 DEF Starts
<1>7. 0 \in 0..n /\ n \in 0..n /\ (\A k \in 0..n : \A j \in 0..k : j \in 0..n)
      /\ \A k \in 1..n : k \in 0..n /\ k - 1 \in 0..n
  BY <1>1
<1>8. Before(0) = <<>> /\ Before(n) = Total /\ Total \in Seq(Cells)
  BY <1>3, <1>4, <1>5, <1>7
<1>9. \A k \in 0..n : Before(k) \in Seq(Cells) /\ Starts(Before(k), Total)
  BY <1>3, <1>4, <1>5
<1>10. \A k \in 0..n : \A j \in 0..k : Len(Before(j)) <= Len(Before(k))
  BY <1>3, <1>6, <1>7
<1>11. \A k \in 1..n : Before(k) = Before(k - 1) \o MessageBytes(k, stream[k])
  BY <1>2, <1>3, <1>5, <1>7
<1> QED
  BY <1>8, <1>9, <1>10, <1>11 DEF n

\* A frame is at its place, and the next one, or the next message, behind it.
LEMMA LayoutFacts ==
  ASSUME StreamTyped, NEW k \in 1..Len(stream), NEW i \in 1..FrameCount(k)
  PROVE  /\ Offset(k, i) \in Nat /\ Len(Total) \in Nat /\ Len(Before(k)) \in Nat
         /\ Len(Before(k - 1)) <= Offset(k, i)
         /\ Offset(k, i + 1) = Offset(k, i) + 6 + ContentLength(k, i)
         /\ i = FrameCount(k) => Len(Before(k)) = Offset(k, i) + 6 + ContentLength(k, i)
         /\ Offset(k, i) + 6 + ContentLength(k, i) <= Len(Before(k))
         /\ Len(Before(k)) <= Len(Total)
         /\ \A x \in 1..(6 + ContentLength(k, i)) : Total[Offset(k, i) + x] = FramesOf(k)[i][x]
<1> DEFINE A == Before(k - 1)
           B == MessageBytes(k, stream[k])
           P == Joined(FramesOf(k), i - 1)
           Q == Joined(FramesOf(k), i)
           f == FramesOf(k)[i]
           m == FrameCount(k)
           w == 6 + ContentLength(k, i)
<1>1. Len(stream) \in Nat /\ m \in Nat /\ ContentLength(k, i) \in Nat /\ w \in Nat
  BY StreamFacts
<1>2. k \in 0..Len(stream) /\ k - 1 \in 0..Len(stream) /\ i \in 0..m /\ i - 1 \in 0..m /\ m \in 0..m
  BY <1>1
<1>3. /\ Before(k) = A \o B /\ A \in Seq(Cells) /\ Before(k) \in Seq(Cells) /\ Starts(Before(k), Total)
      /\ Total \in Seq(Cells) /\ B \in Seq(Cells)
  BY <1>2, BeforeFacts, MessageFacts
<1>4. \A x \in 1..m : FramesOf(k)[x] \in Seq(Cells)
  BY MessageFacts
<1>5. /\ P \in Seq(Cells) /\ Q \in Seq(Cells) /\ Q = P \o f /\ Starts(Q, Joined(FramesOf(k), m))
  <2> HIDE DEF m
  <2> QED
    BY <1>1, <1>2, <1>4, JoinedFacts DEF m
<1>6. f \in Seq(Cells) /\ Len(f) = w
  BY FrameFacts
<1>7. B = Joined(FramesOf(k), m) /\ (i = m => Q = B)
  BY MessageFacts
<1>8. Offset(k, i) = Len(A) + Len(P) /\ Offset(k, i + 1) = Len(A) + Len(Q)
  <2>1. (i + 1) - 1 = i
    OBVIOUS
  <2> QED
    BY <2>1 DEF Offset
<1> HIDE DEF A, B, P, Q, f, m, w
<1>9. /\ Len(A) \in Nat /\ Len(B) \in Nat /\ Len(Before(k)) = Len(A) + Len(B)
      /\ \A x \in 1..Len(B) : Before(k)[Len(A) + x] = B[x]
  <2>1. A \in Seq(Cells) /\ B \in Seq(Cells)
    BY <1>3
  <2>2. /\ Len(A) \in Nat /\ Len(B) \in Nat /\ Len(A \o B) = Len(A) + Len(B)
        /\ \A x \in 1..Len(B) : (A \o B)[Len(A) + x] = B[x]
    BY <2>1
  <2> QED
    BY <1>3, <2>2
<1>10. /\ Len(P) \in Nat /\ Len(Q) = Len(P) + Len(f) /\ \A x \in 1..Len(f) : Q[Len(P) + x] = f[x]
  <2>1. P \in Seq(Cells) /\ f \in Seq(Cells)
    BY <1>5, <1>6
  <2>2. /\ Len(P) \in Nat /\ Len(P \o f) = Len(P) + Len(f)
        /\ \A x \in 1..Len(f) : (P \o f)[Len(P) + x] = f[x]
    BY <2>1
  <2> QED
    BY <1>5, <2>2
<1>11. Len(Q) <= Len(B) /\ \A x \in 1..Len(Q) : Q[x] = B[x]
  BY <1>5, <1>7 DEF Starts
<1>12. Len(Before(k)) <= Len(Total) /\ \A x \in 1..Len(Before(k)) : Before(k)[x] = Total[x]
  BY <1>3 DEF Starts
<1>13. Len(Total) \in Nat
  BY <1>3
<1>14. ASSUME NEW x \in 1..w PROVE Total[Offset(k, i) + x] = f[x]
  <2>1. x \in 1..Len(f) /\ x \in Nat
    BY <1>1, <1>6
  <2>2. Len(P) + x \in 1..Len(Q)
    BY <1>1, <1>6, <1>10, <2>1
  <2>3. Len(P) + x \in 1..Len(B)
    BY <1>9, <1>10, <1>11, <2>1, <2>2
  <2>4. Len(A) + (Len(P) + x) \in 1..Len(Before(k))
    BY <1>9, <1>10, <2>1, <2>3
  <2>5. Offset(k, i) + x = Len(A) + (Len(P) + x)
    BY <1>8, <1>9, <1>10, <2>1
  <2> QED
    BY <1>9, <1>10, <1>11, <1>12, <2>1, <2>2, <2>3, <2>4, <2>5
<1>15. /\ Offset(k, i) \in Nat /\ Len(A) <= Offset(k, i) /\ Offset(k, i + 1) = Offset(k, i) + w /\ Offset(k, i) + w <= Len(Before(k))
       /\ (i = m => Len(Before(k)) = Offset(k, i) + w) /\ Len(Before(k)) \in Nat
  <2>1. i = m => Len(Q) = Len(B)
    BY <1>7
  <2>2. Len(Q) = Len(P) + w /\ w \in Nat /\ Len(P) \in Nat /\ Len(A) \in Nat /\ Len(B) \in Nat
        /\ Len(Before(k)) = Len(A) + Len(B) /\ Len(Q) <= Len(B)
    BY <1>1, <1>6, <1>9, <1>10, <1>11
  <2> QED
    BY <1>8, <2>1, <2>2
<1>16. Offset(k, i) + w = Offset(k, i) + 6 + ContentLength(k, i)
  BY <1>1, <1>15 DEF w
<1> QED
  BY <1>12, <1>13, <1>14, <1>15, <1>16 DEF A, m, w, f

\* The first frame of a message begins where the messages before it end.
LEMMA FirstFrame == ASSUME NEW k PROVE Offset(k, 1) = Len(Before(k - 1)) + 0
<1>1. \A s : Joined(s, 0) = <<>>
  <2>1. ASSUME NEW s PROVE Joined(s, 0) = <<>>
    <3> DEFINE n == 0
               X == {0}
    <3>1. n \in Nat /\ \A i \in 1..n : s[i] \in Seq(X)
      OBVIOUS
    <3>2. Joined(s, 0) = <<>>
      <4> HIDE DEF n, X
      <4> QED
        BY <3>1, JoinedFacts
    <3> QED
      BY <3>2
  <2> QED
    BY <2>1
<1> QED
  BY <1>1 DEF Offset

\* The reader is at frame i of message k; behind the last message, k is one more.
Position == {at \in (1..(Len(stream) + 1)) \X (Nat \ {0}) :
                IF at[1] <= Len(stream) THEN at[2] <= FrameCount(at[1]) ELSE at[2] = 1}
Place(k, i) == Offset(k, i) + (IF readHeader THEN 6 ELSE 0)

\* The bytes of t behind its first p are those of s, then those of r.
Tiles(s, r, t, p) ==
    /\ s \in Seq(Cells) /\ r \in Seq(Cells)
    /\ p + Len(s) + Len(r) = Len(t)
    /\ \A x \in 1..Len(s) : s[x] = t[p + x]
    /\ \A x \in 1..Len(r) : r[x] = t[p + Len(s) + x]

\* The bytes from the place of the reader on: first those of src, then those of wire.
Unread(k, i) == Tiles(src, wire, Total, Place(k, i))

\* A header that was read is the one of frame i of message k.
Headed(k, i) ==
    readHeader => /\ k <= Len(stream)
                  /\ currentFrame = [length |-> ContentLength(k, i) + 6, flags |-> FrameFlags(i, stream[k])]

\* Before the first fragment the messages were handed over; a fragment stays at
\* the head of clientMessage.
AllWhole(k) == \A j \in 1..k : stream[j].whole
Given(k, i) ==
    IF AllWhole(k - 1)
    THEN /\ written = [j \in 1..(k - 1) |-> Frames(j, stream[j])]
         /\ clientMessage = [j \in 1..(i - 1) |-> FrameOf(k, j)]
    ELSE /\ written = [j \in 1..Understood |-> Frames(j, stream[j])]
         /\ clientMessage \in Seq([flags : Nat, content : Seq(Cells)]) /\ clientMessage # <<>>
         /\ ~IsUnFragmented(clientMessage[1])

Located(k, i) == Unread(k, i) /\ Headed(k, i) /\ Given(k, i)

ReaderInv ==
    /\ StreamTyped /\ readHeader \in BOOLEAN
    /\ readerAt \in {"socket", "parse", "closed"}
    /\ readerAt = "socket" => NeedsMore
    /\ \E at \in Position : Located(at[1], at[2])

LEMMA ReaderInitInv == ReaderInit => ReaderInv
<1> SUFFICES ASSUME ReaderInit PROVE ReaderInv
  OBVIOUS
<1>1. /\ StreamTyped /\ readHeader = FALSE /\ readerAt = "socket" /\ src = <<>> /\ written = <<>>
      /\ clientMessage = <<>> /\ wire = Total
  BY DEF ReaderInit, StreamTyped, Total, Messages
<1>2. NeedsMore
  BY <1>1 DEF NeedsMore, SizeOfFrameLengthAndFlags, Width
<1>3. Len(stream) \in Nat /\ \A k \in 1..Len(stream) : FrameCount(k) \in Nat \ {0}
  BY <1>1, StreamFacts
<1>4. <<1, 1>> \in Position
  BY <1>3 DEF Position
<1>5. Place(1, 1) = 0
  <2>1. Before(0) = <<>>
    BY <1>1, BeforeFacts
  <2>2. Offset(1, 1) = Len(Before(1 - 1)) + 0
    BY FirstFrame
  <2>3. 1 - 1 = 0 /\ Len(<<>>) = 0
    OBVIOUS
  <2> QED
    BY <1>1, <2>1, <2>2, <2>3 DEF Place
<1>6. Unread(1, 1)
  <2>1. Total \in Seq(Cells)
    BY <1>1, BeforeFacts
  <2>2. Len(Total) \in Nat /\ Len(src) = 0 /\ src \in Seq(Cells) /\ Len(wire) = Len(Total)
    BY <1>1, <2>1
  <2> QED
    BY <1>1, <1>5, <2>1, <2>2 DEF Unread, Tiles
<1>7. Given(1, 1)
  BY <1>1 DEF Given, AllWhole
<1>8. Located(1, 1)
  BY <1>1, <1>6, <1>7 DEF Located, Headed
<1> QED
  BY <1>1, <1>2, <1>4, <1>8 DEF ReaderInv

\* Where the reader is.
LEMMA PositionFacts ==
  ASSUME StreamTyped, NEW at \in Position
  PROVE  /\ at[1] \in 1..(Len(stream) + 1) /\ at[2] \in Nat \ {0} /\ Len(stream) \in Nat
         /\ at[1] <= Len(stream) => at[1] \in 1..Len(stream) /\ at[2] \in 1..FrameCount(at[1])
         /\ at[1] > Len(stream) => at[1] = Len(stream) + 1 /\ at[2] = 1 /\ Offset(at[1], at[2]) = Len(Total)
         /\ Offset(at[1], at[2]) \in Nat /\ Len(Total) \in Nat
<1>1. /\ Len(stream) \in Nat /\ at[1] \in 1..(Len(stream) + 1) /\ at[2] \in Nat \ {0}
      /\ \A k \in 1..Len(stream) : FrameCount(k) \in Nat \ {0}
  BY StreamFacts DEF Position
<1>2. at[1] <= Len(stream) => at[1] \in 1..Len(stream) /\ at[2] \in 1..FrameCount(at[1])
  BY <1>1 DEF Position
<1>3. Total \in Seq(Cells) /\ Before(Len(stream)) = Total
  BY BeforeFacts
<1>4. Len(Total) \in Nat
  BY <1>3
<1>5. ASSUME at[1] > Len(stream) PROVE at[1] = Len(stream) + 1 /\ at[2] = 1 /\ Offset(at[1], at[2]) = Len(Total)
  <2>1. at[1] = Len(stream) + 1 /\ at[2] = 1 /\ at[1] - 1 = Len(stream)
    BY <1>1, <1>5 DEF Position
  <2>2. Offset(at[1], 1) = Len(Before(at[1] - 1)) + 0
    BY FirstFrame
  <2> QED
    BY <1>3, <1>4, <2>1, <2>2
<1>6. at[1] <= Len(stream) => Offset(at[1], at[2]) \in Nat
  BY <1>2, LayoutFacts
<1>7. at[1] <= Len(stream) \/ at[1] > Len(stream)
  BY <1>1
<1> QED
  BY <1>1, <1>2, <1>4, <1>5, <1>6, <1>7

\* What stays when the stream does.
LEMMA SameStream ==
  ASSUME stream' = stream
  PROVE  /\ Position' = Position /\ Total' = Total /\ StreamTyped' = StreamTyped /\ Understood' = Understood
         /\ \A k, i : Offset(k, i)' = Offset(k, i) /\ FrameOf(k, i)' = FrameOf(k, i)
         /\ \A k : AllWhole(k)' = AllWhole(k)
  BY DEF Total, Messages, Position, Offset, Before, FramesOf, FrameOf, FrameCount, StreamTyped, AllWhole, Understood

\* The beginning and the end of a sequence.
LEMMA PartFacts ==
  ASSUME NEW X, NEW s \in Seq(X), NEW w \in Nat, w <= Len(s)
  PROVE  /\ SubSeq(s, w + 1, Len(s)) \in Seq(X) /\ Len(SubSeq(s, w + 1, Len(s))) = Len(s) - w
         /\ \A x \in 1..(Len(s) - w) : SubSeq(s, w + 1, Len(s))[x] = s[w + x]
         /\ SubSeq(s, 1, w) \in Seq(X) /\ Len(SubSeq(s, 1, w)) = w /\ \A x \in 1..w : SubSeq(s, 1, w)[x] = s[x]
<1> DEFINE m == Len(s)
           v == w + 1
<1>1. m \in Nat /\ \A x \in v..m : s[x] \in X
  OBVIOUS
<1>2. v \in Int /\ m \in Int /\ m - v + 1 = m - w /\ (v <= m \/ m - w = 0)
      /\ \A x \in 1..(m - w) : v + x - 1 = w + x
  BY <1>1
<1>3. SubSeq(s, 1, w) \in Seq(X) /\ Len(SubSeq(s, 1, w)) = w /\ \A x \in 1..w : SubSeq(s, 1, w)[x] = s[x]
  OBVIOUS
<1> HIDE DEF m, v
<1>4. /\ SubSeq(s, v, m) \in Seq(X)
      /\ Len(SubSeq(s, v, m)) = IF v <= m THEN m - v + 1 ELSE 0
      /\ \A x \in 1..(m - v + 1) : SubSeq(s, v, m)[x] = s[v + x - 1]
  BY <1>1, <1>2, SubSeqProperties
<1>5. Len(SubSeq(s, v, m)) = m - w
  BY <1>2, <1>4
<1>6. \A x \in 1..(m - w) : SubSeq(s, v, m)[x] = s[w + x]
  BY <1>2, <1>4
<1> QED
  BY <1>3, <1>4, <1>5, <1>6 DEF m, v

\* The first w bytes of the buffer are taken.
LEMMA DropFacts ==
  ASSUME NEW s, NEW r, NEW t, NEW p \in Nat, Tiles(s, r, t, p), NEW w \in Nat, w <= Len(s)
  PROVE  Tiles(SubSeq(s, w + 1, Len(s)), r, t, p + w)
<1> DEFINE s2 == SubSeq(s, w + 1, Len(s))
           m == Len(s)
           n == Len(r)
           d == Len(s2)
           q == p + w
<1>1. s \in Seq(Cells) /\ r \in Seq(Cells)
  BY DEF Tiles
<1>2. m \in Nat /\ n \in Nat
  BY <1>1
<1>3. s2 \in Seq(Cells) /\ d = m - w /\ \A x \in 1..(m - w) : s2[x] = s[w + x]
  BY <1>1, PartFacts
<1>4. /\ w <= m /\ p + m + n = Len(t) /\ (\A x \in 1..m : s[x] = t[p + x]) /\ \A x \in 1..n : r[x] = t[p + m + x]
  BY DEF Tiles
<1> HIDE DEF s2, m, n, d
<1>5. q + d = p + m /\ q + d + n = p + m + n
  BY <1>2, <1>3, <1>4
<1>6. ASSUME NEW x \in 1..d PROVE s2[x] = t[q + x]
  <2>1. w + x \in 1..m /\ q + x = p + (w + x) /\ x \in 1..(m - w)
    BY <1>2, <1>3, <1>4
  <2> QED
    BY <1>3, <1>4, <2>1
<1> HIDE DEF q
<1>7. \A x \in 1..n : r[x] = t[q + d + x]
  BY <1>4, <1>5
<1>8. q + d + n = Len(t)
  BY <1>4, <1>5
<1>9. Tiles(s2, r, t, q)
  BY <1>1, <1>3, <1>6, <1>7, <1>8 DEF d, n, Tiles
<1> QED
  BY <1>9 DEF s2, q

\* The first n bytes of the wire go to the buffer.
LEMMA TakeFacts ==
  ASSUME NEW s, NEW r, NEW t, NEW p \in Nat, Tiles(s, r, t, p), NEW n \in Nat, n <= Len(r)
  PROVE  Tiles(s \o SubSeq(r, 1, n), SubSeq(r, n + 1, Len(r)), t, p)
<1> DEFINE a == SubSeq(r, 1, n)
           b == SubSeq(r, n + 1, Len(r))
           c == s \o a
           ls == Len(s)
           lr == Len(r)
           lb == Len(b)
           lc == Len(c)
<1>1. s \in Seq(Cells) /\ r \in Seq(Cells)
  BY DEF Tiles
<1>2. ls \in Nat /\ lr \in Nat
  BY <1>1
<1>3. /\ a \in Seq(Cells) /\ Len(a) = n /\ \A x \in 1..n : a[x] = r[x]
      /\ b \in Seq(Cells) /\ lb = lr - n /\ \A x \in 1..(lr - n) : b[x] = r[n + x]
  BY <1>1, PartFacts
<1>4. /\ n <= lr /\ p + ls + lr = Len(t) /\ (\A x \in 1..ls : s[x] = t[p + x]) /\ \A x \in 1..lr : r[x] = t[p + ls + x]
  BY DEF Tiles
<1> HIDE DEF a, b
<1>5. /\ c \in Seq(Cells) /\ lc = ls + n /\ (\A x \in 1..ls : c[x] = s[x])
      /\ \A x \in 1..n : c[ls + x] = a[x]
  <2>1. a \in Seq(Cells) /\ Len(a) = n
    BY <1>3
  <2>2. /\ s \o a \in Seq(Cells) /\ Len(s \o a) = Len(s) + Len(a)
        /\ \A x \in 1..Len(s) : (s \o a)[x] = s[x]
        /\ \A x \in 1..Len(a) : (s \o a)[Len(s) + x] = a[x]
    <3>1. s \in Seq(Cells) /\ a \in Seq(Cells)
      BY <1>1, <2>1
    <3> QED
      BY <3>1, ConcatFacts
  <2> QED
    BY <2>1, <2>2, Zenon
<1> HIDE DEF c, ls, lr, lb, lc
<1>6. ASSUME NEW x \in 1..lc PROVE c[x] = t[p + x]
  <2>1. CASE x <= ls
    <3>1. x \in 1..ls
      BY <1>2, <1>5, <2>1
    <3> QED
      BY <1>4, <1>5, <3>1
  <2>2. CASE x > ls
    <3> DEFINE y == x - ls
    <3>1. y \in 1..n /\ y \in 1..lr /\ x = ls + y /\ p + x = p + ls + y
      BY <1>2, <1>4, <1>5, <2>2
    <3> HIDE DEF y
    <3>2. c[ls + y] = a[y] /\ a[y] = r[y]
      BY <1>3, <1>5, <3>1
    <3> QED
      BY <1>4, <3>1, <3>2
  <2> QED
    BY <1>2, <1>5, <2>1, <2>2
<1>7. ASSUME NEW x \in 1..lb PROVE b[x] = t[p + lc + x]
  <2>1. x \in 1..(lr - n) /\ n + x \in 1..lr /\ p + lc + x = p + ls + (n + x)
    BY <1>2, <1>3, <1>4, <1>5
  <2> QED
    BY <1>3, <1>4, <2>1
<1>8. p + lc + lb = Len(t)
  <2>1. p + lc + lb = p + ls + lr
    BY <1>2, <1>3, <1>4, <1>5
  <2> QED
    BY <1>4, <2>1
<1>9. Tiles(c, b, t, p)
  BY <1>3, <1>5, <1>6, <1>7, <1>8 DEF lb, lc, Tiles
<1> QED
  BY <1>9 DEF a, b, c

LEMMA ReadSocketStep ==
  ASSUME ReaderInv, NEW n \in 1..MaxChunk, ReadSocket(n)
  PROVE  ReaderInv'
<1>1. /\ n \in Nat /\ n <= Len(wire) /\ readerAt' = "parse"
      /\ src' = src \o SubSeq(wire, 1, n) /\ wire' = SubSeq(wire, n + 1, Len(wire))
      /\ UNCHANGED <<stream, clientMessage, currentFrame, readHeader, written>>
  BY StreamsAssumption DEF ReadSocket
<1>2. PICK at \in Position : Located(at[1], at[2])
  BY DEF ReaderInv
<1> DEFINE k == at[1]
           i == at[2]
           p == Place(k, i)
<1>3. p \in Nat
  <2>1. Offset(k, i) \in Nat
    BY PositionFacts DEF ReaderInv
  <2> QED
    BY <2>1 DEF ReaderInv, Place
<1>4. p' = p /\ Total' = Total /\ Position' = Position
  BY <1>1, SameStream DEF Place
<1>5. Unread(k, i)'
  <2>1. Tiles(src, wire, Total, p)
    BY <1>2 DEF Located, Unread
  <2>2. Tiles(src \o SubSeq(wire, 1, n), SubSeq(wire, n + 1, Len(wire)), Total, p)
    <3> HIDE DEF p
    <3> QED
      BY <1>1, <1>3, <2>1, TakeFacts
  <2>3. Tiles(src', wire', Total', p')
    BY <1>1, <1>4, <2>2, Zenon
  <2> QED
    BY <2>3 DEF Unread
<1>6. Headed(k, i)' /\ Given(k, i)'
  BY <1>1, <1>2 DEF Located, Headed, Given, AllWhole, ContentLength, FrameOf, Understood
<1>7. Located(k, i)' /\ at \in Position'
  BY <1>4, <1>5, <1>6 DEF Located
<1> QED
  BY <1>1, <1>7 DEF ReaderInv, StreamTyped

\* A reader that has bytes is at a frame.
LEMMA HasFrame ==
  ASSUME StreamTyped, readHeader \in BOOLEAN, NEW at \in Position, Located(at[1], at[2]), readHeader \/ Len(src) > 0
  PROVE  at[1] \in 1..Len(stream) /\ at[2] \in 1..FrameCount(at[1])
<1> DEFINE k == at[1]
           i == at[2]
<1>1. /\ k \in 1..(Len(stream) + 1) /\ Len(stream) \in Nat
      /\ k <= Len(stream) => k \in 1..Len(stream) /\ i \in 1..FrameCount(k)
      /\ k > Len(stream) => Offset(k, i) = Len(Total)
      /\ Len(Total) \in Nat
  BY PositionFacts
<1>2. src \in Seq(Cells) /\ wire \in Seq(Cells) /\ Place(k, i) + Len(src) + Len(wire) = Len(Total)
      /\ (readHeader => k <= Len(stream))
  BY DEF Located, Unread, Tiles, Headed
<1>3. Len(src) \in Nat /\ Len(wire) \in Nat
  BY <1>2
<1>4. ~readHeader => Place(k, i) = Offset(k, i) + 0
  BY DEF Place
<1>5. k > Len(stream) => FALSE
  BY <1>1, <1>2, <1>3, <1>4
<1> QED
  BY <1>1, <1>5

LEMMA ReadHeaderStep ==
  ASSUME ReaderInv, ReadHeader
  PROVE  ReaderInv'
<1>1. /\ readerAt = "parse" /\ ~readHeader /\ Len(src) >= 6 /\ StreamTyped
      /\ UNCHANGED <<stream, wire, clientMessage, written>>
  BY DEF ReadHeader, SizeOfFrameLengthAndFlags, Width, ReaderInv
<1>2. PICK at \in Position : Located(at[1], at[2])
  BY DEF ReaderInv
<1> DEFINE k == at[1]
           i == at[2]
           l == ContentLength(k, i)
           o == Offset(k, i)
           f == FrameFlags(i, stream[k])
<1>3. src \in Seq(Cells) /\ Len(src) \in Nat
  <2>1. src \in Seq(Cells)
    BY <1>2 DEF Located, Unread, Tiles
  <2> QED
    BY <2>1
<1>4. k \in 1..Len(stream) /\ i \in 1..FrameCount(k)
  BY <1>1, <1>2, <1>3, HasFrame DEF ReaderInv
<1>5. l \in Nat /\ o \in Nat /\ \A x \in 1..(6 + l) : Total[o + x] = FramesOf(k)[i][x]
  BY <1>1, <1>4, LayoutFacts, StreamFacts
<1>6. /\ \A x \in 1..4 : FramesOf(k)[i][x] = Cell(<<l + 6>>, x - 1)
      /\ \A x \in 1..2 : FramesOf(k)[i][4 + x] = Cell(<<f>>, x - 1)
  BY <1>1, <1>4, FrameFacts
<1>7. Place(k, i) = o
  BY <1>1, <1>5 DEF Place
<1>8. Tiles(src, wire, Total, o) /\ \A x \in 1..Len(src) : src[x] = Total[o + x]
  <2>1. Tiles(src, wire, Total, o)
    BY <1>2, <1>7 DEF Located, Unread
  <2> QED
    BY <2>1 DEF Tiles
<1> HIDE DEF l, o, f
<1>9. ASSUME NEW x \in 1..6 PROVE src[x] = FramesOf(k)[i][x]
  <2>1. x \in 1..(6 + l) /\ x \in 1..Len(src)
    BY <1>1, <1>3, <1>5
  <2> QED
    BY <1>5, <1>8, <2>1
<1>10. /\ src[1] = Cell(<<l + 6>>, 0) /\ src[2] = Cell(<<l + 6>>, 1) /\ src[3] = Cell(<<l + 6>>, 2)
       /\ src[4] = Cell(<<l + 6>>, 3) /\ src[5] = Cell(<<f>>, 0) /\ src[6] = Cell(<<f>>, 1)
  <2>1. /\ FramesOf(k)[i][1] = Cell(<<l + 6>>, 1 - 1) /\ FramesOf(k)[i][2] = Cell(<<l + 6>>, 2 - 1)
        /\ FramesOf(k)[i][3] = Cell(<<l + 6>>, 3 - 1) /\ FramesOf(k)[i][4] = Cell(<<l + 6>>, 4 - 1)
    BY <1>6
  <2>2. FramesOf(k)[i][4 + 1] = Cell(<<f>>, 1 - 1) /\ FramesOf(k)[i][4 + 2] = Cell(<<f>>, 2 - 1)
    BY <1>6
  <2>3. src[1] = FramesOf(k)[i][1] /\ src[2] = FramesOf(k)[i][2] /\ src[3] = FramesOf(k)[i][3]
        /\ src[4] = FramesOf(k)[i][4] /\ src[5] = FramesOf(k)[i][5] /\ src[6] = FramesOf(k)[i][6]
    BY <1>9
  <2> QED
    BY <2>1, <2>2, <2>3
<1>11. Get(src, 0, 4) = <<l + 6>>
  <2>1. src[0 + 1].v = <<l + 6>>
    BY <1>10 DEF Cell
  <2>2. \A x \in 1..4 : src[0 + x] = Cell(<<l + 6>>, x - 1)
    <3>1. \A x \in 1..4 : x = 1 \/ x = 2 \/ x = 3 \/ x = 4
      OBVIOUS
    <3> QED
      BY <1>10, <3>1
  <2> QED
    BY <1>1, <1>3, <2>1, <2>2 DEF Get
<1>12. Get(src, 4, 2) = <<f>>
  <2>1. src[4 + 1].v = <<f>>
    BY <1>10 DEF Cell
  <2>2. \A x \in 1..2 : src[4 + x] = Cell(<<f>>, x - 1)
    <3>1. \A x \in 1..2 : x = 1 \/ x = 2
      OBVIOUS
    <3> QED
      BY <1>10, <3>1
  <2> QED
    BY <1>1, <1>3, <2>1, <2>2 DEF Get
<1>13. Width["Int"] = 4 /\ Width["Short"] = 2 /\ SizeOfFrameLengthAndFlags = 6
  BY DEF Width, SizeOfFrameLengthAndFlags
<1>14. /\ currentFrame' = [length |-> l + 6, flags |-> f] /\ readHeader' = TRUE
       /\ src' = SubSeq(src, 6 + 1, Len(src)) /\ readerAt' = "parse"
  <2>1. Get(src, 0, 4)[1] = l + 6 /\ Get(src, 4, 2)[1] = f /\ ~(l + 6 < 6)
    BY <1>5, <1>11, <1>12
  <2> QED
    BY <1>1, <1>13, <2>1 DEF ReadHeader
<1>15. Tiles(src', wire, Total, o + 6)
  <2> DEFINE w == 6
  <2>1. w \in Nat /\ w <= Len(src) /\ src' = SubSeq(src, w + 1, Len(src))
    BY <1>1, <1>14
  <2> HIDE DEF w
  <2>2. Tiles(SubSeq(src, w + 1, Len(src)), wire, Total, o + w)
    BY <1>5, <1>8, <2>1, DropFacts
  <2> QED
    BY <2>1, <2>2 DEF w
<1>16. Place(k, i)' = o + 6 /\ Total' = Total /\ Position' = Position /\ StreamTyped'
  BY <1>1, <1>14, SameStream DEF Place, o
<1>17. Unread(k, i)'
  <2>1. Tiles(src', wire', Total', Place(k, i)')
    BY <1>1, <1>15, <1>16, Zenon
  <2> QED
    BY <2>1 DEF Unread
<1>18. Headed(k, i)'
  BY <1>1, <1>4, <1>14 DEF Headed, ContentLength, l, f
<1>19. Given(k, i)'
  BY <1>1, <1>2, SameStream DEF Located, Given
<1>20. Located(k, i)' /\ at \in Position'
  BY <1>16, <1>17, <1>18, <1>19 DEF Located
<1> QED
  BY <1>14, <1>16, <1>20 DEF ReaderInv

\* The messages before the first fragment.
LEMMA UnderstoodFacts ==
  ASSUME StreamTyped
  PROVE  /\ Understood \in 0..Len(stream)
         /\ \A k \in 0..Len(stream) : AllWhole(k) <=> k <= Understood
<1> DEFINE n == Len(stream)
           S == {k \in 1..n : ~stream[k].whole}
           IsFirst(k) == ~stream[k].whole /\ \A j \in 1..(k - 1) : stream[j].whole
<1>1. n \in Nat /\ DOMAIN stream = 1..n
  BY StreamFacts
<1>2. CASE \A k \in DOMAIN stream : stream[k].whole
  <2>1. Understood = n
    BY <1>2 DEF Understood
  <2>2. \A k \in 0..n : AllWhole(k)
    BY <1>1, <1>2 DEF AllWhole
  <2> QED
    BY <1>1, <2>1, <2>2
<1>3. CASE ~\A k \in DOMAIN stream : stream[k].whole
  <2>1. S # {} /\ S \in SUBSET Nat
    BY <1>1, <1>3
  <2>2. PICK c \in S : \A j \in S : c <= j
    <3> HIDE DEF S
    <3> QED
      BY <2>1, LeastExists
  <2>3. c \in DOMAIN stream /\ IsFirst(c)
    BY <1>1, <2>2
  <2> DEFINE u == CHOOSE k \in DOMAIN stream : IsFirst(k)
  <2>4. u \in DOMAIN stream /\ IsFirst(u)
    <3> HIDE DEF IsFirst
    <3> QED
      BY <2>3
  <2>5. Understood = u - 1
    BY <1>3 DEF Understood
  <2> HIDE DEF u
  <2>6. u \in 1..n /\ ~stream[u].whole /\ \A j \in 1..(u - 1) : stream[j].whole
    BY <1>1, <2>4
  <2>7. ASSUME NEW k \in 0..n PROVE AllWhole(k) <=> k <= u - 1
    <3>1. k <= u - 1 => AllWhole(k)
      BY <1>1, <2>6 DEF AllWhole
    <3>2. k > u - 1 => u \in 1..k
      BY <1>1, <2>6
    <3>3. k > u - 1 => ~AllWhole(k)
      BY <2>6, <3>2 DEF AllWhole
    <3> QED
      BY <1>1, <2>6, <3>1, <3>3
  <2> QED
    BY <1>1, <2>5, <2>6, <2>7
<1> QED
  BY <1>2, <1>3

\* What the flags of a frame say.
LEMMA FlagFacts ==
  ASSUME StreamTyped, NEW k \in 1..Len(stream), NEW i \in 1..FrameCount(k)
  PROVE  /\ FrameOf(k, i) \in [flags : Nat, content : Seq(Cells)]
         /\ IsFinal(FrameOf(k, i)) <=> i = FrameCount(k)
         /\ IsUnFragmented(FrameOf(k, 1)) <=> stream[k].whole
<1>1. stream[k].whole \in BOOLEAN /\ FrameCount(k) \in Nat \ {0} /\ ContentLength(k, i) \in Nat /\ Len(stream) \in Nat
  BY StreamFacts
<1>2. 1 \in 1..FrameCount(k)
  BY <1>1
<1>3. FrameOf(k, i) = [flags |-> FrameFlags(i, stream[k]), content |-> CellsOf(<<k, i>>, ContentLength(k, i))]
  BY FrameFacts
<1>4. FrameOf(k, 1).flags = FrameFlags(1, stream[k])
  <2>1. FrameOf(k, 1) = [flags |-> FrameFlags(1, stream[k]), content |-> CellsOf(<<k, 1>>, ContentLength(k, 1))]
    BY <1>2, FrameFacts
  <2> QED
    BY <2>1
<1>5. CellsOf(<<k, i>>, ContentLength(k, i)) \in Seq(Cells)
  <2>1. <<k, i>> \in Seq(Nat)
    BY <1>1
  <2> QED
    BY <1>1, <2>1, CellFacts
<1>6. FrameFlags(i, stream[k]) \in Nat
  BY <1>1 DEF FrameFlags, NoFlags, FinalFlag, FragmentFlags
<1>7. FrameOf(k, i) \in [flags : Nat, content : Seq(Cells)]
  BY <1>3, <1>5, <1>6
<1>8. FrameOf(k, i).flags = FrameFlags(i, stream[k])
  BY <1>3
<1>9. IsFinal(FrameOf(k, i)) <=> i = FrameCount(k)
  BY <1>1, <1>8 DEF IsFinal, FrameFlags, NoFlags, FinalFlag, FragmentFlags, FrameCount
<1>10. IsUnFragmented(FrameOf(k, 1)) <=> stream[k].whole
  BY <1>1, <1>4 DEF IsUnFragmented, FrameFlags, NoFlags, FinalFlag, FragmentFlags, FrameCount
<1> QED
  BY <1>7, <1>9, <1>10

\* The frame behind a frame.
NextAt(k, i) == IF i < FrameCount(k) THEN <<k, i + 1>> ELSE <<k + 1, 1>>

LEMMA NextFacts ==
  ASSUME StreamTyped, NEW k \in 1..Len(stream), NEW i \in 1..FrameCount(k)
  PROVE  /\ NextAt(k, i) \in Position
         /\ Offset(NextAt(k, i)[1], NextAt(k, i)[2]) = Offset(k, i) + 6 + ContentLength(k, i)
<1>1. Len(stream) \in Nat /\ \A j \in 1..Len(stream) : FrameCount(j) \in Nat \ {0}
  BY StreamFacts
<1>2. CASE i < FrameCount(k)
  <2>1. <<k, i + 1>> \in Position
    BY <1>1, <1>2 DEF Position
  <2> QED
    BY <1>2, <2>1, LayoutFacts DEF NextAt
<1>3. CASE ~(i < FrameCount(k))
  <2>1. i = FrameCount(k) /\ (k + 1) - 1 = k
    BY <1>1, <1>3
  <2>2. <<k + 1, 1>> \in Position
    BY <1>1 DEF Position
  <2>3. Offset(k + 1, 1) = Len(Before(k)) + 0
    BY <2>1, FirstFrame
  <2>4. Len(Before(k)) \in Nat /\ Len(Before(k)) = Offset(k, i) + 6 + ContentLength(k, i)
    BY <2>1, LayoutFacts
  <2> QED
    BY <1>3, <2>2, <2>3, <2>4 DEF NextAt
<1> QED
  BY <1>2, <1>3

\* A list that is made element by element.
LEMMA Extended ==
  ASSUME NEW n \in Nat \ {0}, NEW g, NEW s, s = [j \in 1..(n - 1) |-> g[j]], NEW e, e = g[n]
  PROVE  Append(s, e) = [j \in 1..n |-> g[j]]
<1> DEFINE X == {g[j] : j \in 1..n}
           t == [j \in 1..n |-> g[j]]
           r == Append(s, e)
<1>1. n - 1 \in Nat /\ \A j \in 1..(n - 1) : j \in 1..n
  OBVIOUS
<1>2. s \in Seq(X) /\ Len(s) = n - 1 /\ \A j \in 1..(n - 1) : s[j] = g[j]
  BY <1>1
<1>3. t \in Seq(X) /\ Len(t) = n /\ \A j \in 1..n : t[j] = g[j]
  OBVIOUS
<1>4. e \in X
  OBVIOUS
<1> HIDE DEF X, t
<1>5. r \in Seq(X) /\ Len(r) = n /\ \A j \in 1..n : r[j] = IF j = n THEN e ELSE s[j]
  BY <1>1, <1>2, <1>4
<1>6. \A j \in 1..n : r[j] = t[j]
  BY <1>2, <1>3, <1>5
<1> HIDE DEF r
<1>7. r = t
  BY <1>3, <1>5, <1>6
<1> QED
  BY <1>7 DEF r, t

\* The content that is read is the content of the frame.
LEMMA ContentFacts ==
  ASSUME StreamTyped, NEW k \in 1..Len(stream), NEW i \in 1..FrameCount(k),
         Tiles(src, wire, Total, Offset(k, i) + 6), ContentLength(k, i) <= Len(src)
  PROVE  [flags |-> FrameFlags(i, stream[k]), content |-> SubSeq(src, 1, ContentLength(k, i))] = FrameOf(k, i)
<1> DEFINE l == ContentLength(k, i)
           o == Offset(k, i)
           a == SubSeq(src, 1, l)
           c == CellsOf(<<k, i>>, l)
<1>1. l \in Nat /\ o \in Nat /\ \A x \in 1..(6 + l) : Total[o + x] = FramesOf(k)[i][x]
  BY LayoutFacts, StreamFacts
<1>2. src \in Seq(Cells) /\ \A x \in 1..Len(src) : src[x] = Total[(o + 6) + x]
  BY DEF Tiles
<1>3. /\ FrameOf(k, i) = [flags |-> FrameFlags(i, stream[k]), content |-> c]
      /\ \A x \in 1..l : FramesOf(k)[i][6 + x] = Cell(<<k, i>>, x - 1)
  BY FrameFacts
<1>4. a \in Seq(Cells) /\ Len(a) = l /\ \A x \in 1..l : a[x] = src[x]
  BY <1>1, <1>2, PartFacts
<1>5. c \in Seq(Cells) /\ Len(c) = l /\ \A x \in 1..l : c[x] = Cell(<<k, i>>, x - 1)
  <2>1. <<k, i>> \in Seq(Nat)
    BY StreamFacts
  <2> QED
    BY <1>1, <2>1, CellFacts
<1>6. Len(src) \in Nat /\ l <= Len(src)
  BY <1>2
<1> HIDE DEF l, o, a, c
<1>7. ASSUME NEW x \in 1..l PROVE a[x] = c[x]
  <2>1. x \in 1..Len(src) /\ (o + 6) + x = o + (6 + x) /\ 6 + x \in 1..(6 + l)
    <3> DEFINE z == Len(src)
    <3>1. z \in Nat /\ l <= z /\ l \in Nat /\ o \in Nat
      BY <1>1, <1>6
    <3> HIDE DEF z
    <3>2. x \in 1..z
      BY <3>1
    <3>3. (o + 6) + x = o + (6 + x) /\ 6 + x \in 1..(6 + l)
      BY <3>1
    <3> QED
      BY <3>2, <3>3 DEF z
  <2>2. a[x] = Total[o + (6 + x)]
    BY <1>2, <1>4, <2>1
  <2>3. Total[o + (6 + x)] = FramesOf(k)[i][6 + x]
    BY <1>1, <2>1
  <2> QED
    BY <1>3, <1>5, <2>2, <2>3
<1>8. a = c
  BY <1>4, <1>5, <1>7
<1> QED
  BY <1>3, <1>8 DEF a, l

LEMMA ReadContentStep ==
  ASSUME ReaderInv, ReadContent
  PROVE  ReaderInv'
<1>1. /\ readerAt = "parse" /\ readHeader = TRUE /\ StreamTyped /\ readHeader' = FALSE /\ readerAt' = "parse"
      /\ UNCHANGED <<stream, wire>>
  BY DEF ReadContent, ReaderInv
<1>2. PICK at \in Position : Located(at[1], at[2])
  BY DEF ReaderInv
<1> DEFINE k == at[1]
           i == at[2]
           l == ContentLength(k, i)
           o == Offset(k, i)
           e == FrameOf(k, i)
           m == Append(clientMessage, e)
<1>0. PICK nx : nx = NextAt(k, i)
  OBVIOUS
<1>3. k \in 1..Len(stream) /\ i \in 1..FrameCount(k)
  BY <1>1, <1>2, HasFrame DEF ReaderInv
<1>4. /\ l \in Nat /\ o \in Nat /\ Len(stream) \in Nat /\ FrameCount(k) \in Nat \ {0}
      /\ k \in Nat \ {0} /\ i \in Nat \ {0}
  BY <1>1, <1>3, LayoutFacts, StreamFacts
<1>5. currentFrame = [length |-> l + 6, flags |-> FrameFlags(i, stream[k])]
  BY <1>1, <1>2 DEF Located, Headed
<1>6. ContentSize = l
  <2>1. currentFrame.length = l + 6 /\ SizeOfFrameLengthAndFlags = 6
    BY <1>5 DEF Width, SizeOfFrameLengthAndFlags
  <2> HIDE DEF l
  <2> QED
    BY <1>4, <2>1 DEF ContentSize
<1>7. Tiles(src, wire, Total, o + 6) /\ l <= Len(src) /\ src' = SubSeq(src, l + 1, Len(src))
  <2>1. Place(k, i) = o + 6
    BY <1>1 DEF Place
  <2>2. Tiles(src, wire, Total, o + 6)
    BY <1>2, <2>1 DEF Located, Unread
  <2>3. src \in Seq(Cells)
    BY <2>2 DEF Tiles
  <2>4. Len(src) >= l /\ src' = SubSeq(src, l + 1, Len(src))
    BY <1>6 DEF ReadContent
  <2> HIDE DEF l
  <2> QED
    BY <1>4, <2>2, <2>3, <2>4
<1>8. [flags |-> currentFrame.flags, content |-> SubSeq(src, 1, ContentSize)] = e
  <2>1. currentFrame.flags = FrameFlags(i, stream[k])
    BY <1>5
  <2> QED
    BY <1>1, <1>3, <1>6, <1>7, <2>1, ContentFacts
<1>9. IF IsFinal(Last(m)) /\ IsUnFragmented(m[1])
      THEN written' = Append(written, m) /\ clientMessage' = <<>>
      ELSE written' = written /\ clientMessage' = m
  BY <1>8, Zenon DEF ReadContent
<1>10. /\ e \in [flags : Nat, content : Seq(Cells)] /\ (IsFinal(e) <=> i = FrameCount(k))
       /\ (IsUnFragmented(FrameOf(k, 1)) <=> stream[k].whole)
  BY <1>1, <1>3, FlagFacts
<1>11. nx \in Position /\ Offset(nx[1], nx[2]) = o + 6 + l
  BY <1>0, <1>1, <1>3, NextFacts
<1>12. Position' = Position /\ Total' = Total /\ StreamTyped' /\ Offset(nx[1], nx[2])' = Offset(nx[1], nx[2])
  BY <1>1, SameStream
<1>13. Unread(nx[1], nx[2])'
  <2>1. Tiles(src', wire, Total, o + 6 + l)
    <3> HIDE DEF o, l
    <3>1. o + 6 \in Nat
      BY <1>4
    <3> QED
      BY <1>4, <1>7, <3>1, DropFacts
  <2>2. Place(nx[1], nx[2])' = o + 6 + l
    <3>1. Place(nx[1], nx[2])' = Offset(nx[1], nx[2])' + 0
      BY <1>1 DEF Place
    <3> HIDE DEF o, l
    <3> QED
      BY <1>4, <1>11, <1>12, <3>1
  <2>3. Tiles(src', wire', Total', Place(nx[1], nx[2])')
    BY <1>1, <1>12, <2>1, <2>2, Zenon
  <2> QED
    BY <2>3 DEF Unread
<1>14. Headed(nx[1], nx[2])'
  BY <1>1 DEF Headed
<1>15. Given(k, i)
  BY <1>2 DEF Located
<1> DEFINE Rec == [flags : Nat, content : Seq(Cells)]
<1>16. clientMessage \in Seq(Rec)
  <2>1. CASE AllWhole(k - 1)
    <3>1. clientMessage = [j \in 1..(i - 1) |-> FrameOf(k, j)]
      BY <1>15, <2>1 DEF Given
    <3>2. \A j \in 1..(i - 1) : j \in 1..FrameCount(k)
      BY <1>3, <1>4
    <3>3. \A j \in 1..(i - 1) : FrameOf(k, j) \in Rec
      BY <1>1, <1>3, <3>2, FlagFacts
    <3>4. i - 1 \in Nat
      BY <1>4
    <3> HIDE DEF Rec
    <3> QED
      BY <3>1, <3>3, <3>4
  <2>2. CASE ~AllWhole(k - 1)
    BY <1>15, <2>2 DEF Given
  <2> QED
    BY <2>1, <2>2
<1>17. /\ m \in Seq(Rec) /\ m # <<>> /\ Last(m) = e
       /\ (clientMessage # <<>> => m[1] = clientMessage[1])
  <2>1. e \in Rec
    BY <1>10
  <2> HIDE DEF Rec, e
  <2>2. Len(clientMessage) \in Nat
    BY <1>16
  <2>3. m \in Seq(Rec) /\ Len(m) = Len(clientMessage) + 1 /\ m[Len(clientMessage) + 1] = e
    BY <1>16, <2>1
  <2>4. clientMessage # <<>> => 1 \in 1..Len(clientMessage)
    BY <1>16
  <2>5. \A x \in 1..Len(clientMessage) : m[x] = clientMessage[x]
    BY <1>16, <2>1
  <2>6. Len(m) # 0
    BY <2>2, <2>3
  <2> HIDE DEF m
  <2>7. m # <<>>
    <3>1. Len(<<>>) = 0
      OBVIOUS
    <3> QED
      BY <2>6, <3>1, Zenon
  <2> QED
    BY <2>3, <2>4, <2>5, <2>7 DEF Last
<1> DEFINE W(n) == [j \in 1..n |-> Frames(j, stream[j])]
<1>18. /\ k - 1 \in 0..Len(stream) /\ k \in 0..Len(stream) /\ (k + 1) - 1 = k /\ (i + 1) - 1 = i
  BY <1>3, <1>4
<1>19. /\ Understood \in 0..Len(stream) /\ (AllWhole(k - 1) <=> k - 1 <= Understood)
       /\ (AllWhole(k) <=> k <= Understood)
  BY <1>1, <1>18, UnderstoodFacts
<1>20. AllWhole(k) <=> AllWhole(k - 1) /\ stream[k].whole
  <2>1. \A j \in 1..k : j \in 1..(k - 1) \/ j = k
    BY <1>4
  <2>2. (\A j \in 1..(k - 1) : j \in 1..k) /\ k \in 1..k
    BY <1>4
  <2> QED
    BY <2>1, <2>2 DEF AllWhole
\* what Given(nx[1], nx[2])' says
<1>21. ASSUME NEW a, NEW b, nx = <<a, b>>,
              IF AllWhole(a - 1)
              THEN written' = W(a - 1) /\ clientMessage' = [j \in 1..(b - 1) |-> FrameOf(a, j)]
              ELSE /\ written' = W(Understood) /\ clientMessage' \in Seq(Rec) /\ clientMessage' # <<>>
                   /\ ~IsUnFragmented(clientMessage'[1])
       PROVE  Given(nx[1], nx[2])'
  <2>1. nx[1] = a /\ nx[2] = b
    BY <1>21
  <2>2. AllWhole(a - 1)' = AllWhole(a - 1) /\ Understood' = Understood
    BY <1>1, SameStream
  <2> QED
    BY <1>1, <1>21, <2>1, <2>2 DEF Given, FrameOf
<1>22. Given(nx[1], nx[2])'
  <2>1. CASE AllWhole(k - 1)
    <3>1. written = W(k - 1) /\ clientMessage = [j \in 1..(i - 1) |-> FrameOf(k, j)]
      BY <1>15, <2>1 DEF Given
    <3>2. m = [j \in 1..i |-> FrameOf(k, j)]
      <4> DEFINE g == Frames(k, stream[k])
      <4>1. clientMessage = [j \in 1..(i - 1) |-> g[j]] /\ e = g[i]
        BY <3>1 DEF FrameOf
      <4> HIDE DEF g, e
      <4>2. Append(clientMessage, e) = [j \in 1..i |-> g[j]]
        BY <1>4, <4>1, Extended
      <4> QED
        BY <4>2 DEF g, FrameOf
    <3>3. m[1] = FrameOf(k, 1)
      <4>1. 1 \in 1..i
        BY <1>4
      <4> HIDE DEF m
      <4> QED
        BY <3>2, <4>1
    <3>4. CASE i < FrameCount(k)
      <4>1. nx = <<k, i + 1>> /\ ~IsFinal(e)
        BY <1>0, <1>4, <1>10, <3>4 DEF NextAt
      <4>2. written' = written /\ clientMessage' = m
        BY <1>9, <1>17, <4>1
      <4> HIDE DEF m, W, k, i
      <4> QED
        BY <1>18, <1>21, <2>1, <3>1, <3>2, <4>1, <4>2
    <3>5. CASE ~(i < FrameCount(k)) /\ stream[k].whole
      <4>1. nx = <<k + 1, 1>> /\ i = FrameCount(k) /\ IsFinal(e) /\ IsUnFragmented(m[1]) /\ AllWhole(k)
        BY <1>0, <1>3, <1>4, <1>10, <1>20, <2>1, <3>3, <3>5 DEF NextAt
      <4>2. written' = Append(written, m) /\ clientMessage' = <<>>
        BY <1>9, <1>17, <4>1
      <4>3. m = Frames(k, stream[k])
        <5>1. DOMAIN stream[k].frames = 1..FrameCount(k)
          BY <1>1, <1>3, StreamFacts
        <5>2. Frames(k, stream[k]) = [j \in 1..i |-> Frames(k, stream[k])[j]]
          BY <4>1, <5>1 DEF Frames
        <5> QED
          BY <3>2, <5>2 DEF FrameOf
      <4>4. Append(written, m) = W(k)
        <5> DEFINE g == W(k)
        <5>1. \A j \in 1..k : g[j] = Frames(j, stream[j])
          OBVIOUS
        <5>2. (\A j \in 1..(k - 1) : j \in 1..k) /\ k \in 1..k
          BY <1>4
        <5>3. written = [j \in 1..(k - 1) |-> g[j]] /\ m = g[k] /\ g = [j \in 1..k |-> g[j]]
          BY <3>1, <4>3, <5>1, <5>2
        <5> HIDE DEF g, m
        <5>4. Append(written, m) = [j \in 1..k |-> g[j]]
          BY <1>4, <5>3, Extended
        <5> QED
          BY <5>3, <5>4 DEF g
      <4>5. clientMessage' = [j \in 1..(1 - 1) |-> FrameOf(k + 1, j)]
        BY <4>2
      <4> HIDE DEF m, W, k, i
      <4> QED
        BY <1>18, <1>21, <4>1, <4>2, <4>4, <4>5
    <3>6. CASE ~(i < FrameCount(k)) /\ ~stream[k].whole
      <4>1. nx = <<k + 1, 1>> /\ ~IsUnFragmented(m[1]) /\ ~AllWhole(k)
        BY <1>0, <1>10, <1>20, <3>3, <3>6 DEF NextAt
      <4>2. written' = written /\ clientMessage' = m
        BY <1>9, <4>1
      <4>3. Understood = k - 1
        BY <1>4, <1>19, <2>1, <4>1
      <4> HIDE DEF m, W, k, i, Rec
      <4> QED
        BY <1>17, <1>18, <1>21, <3>1, <4>1, <4>2, <4>3
    <3> QED
      BY <3>4, <3>5, <3>6
  <2>2. CASE ~AllWhole(k - 1)
    <3>1. written = W(Understood) /\ clientMessage # <<>> /\ ~IsUnFragmented(clientMessage[1])
      BY <1>15, <2>2 DEF Given
    <3>2. ~IsUnFragmented(m[1])
      BY <1>17, <3>1
    <3>3. written' = written /\ clientMessage' = m
      BY <1>9, <3>2
    <3>4. ~AllWhole(k)
      BY <1>20, <2>2
    <3>5. nx = <<k, i + 1>> \/ nx = <<k + 1, 1>>
      BY <1>0 DEF NextAt
    <3> HIDE DEF m, W, k, i, Rec
    <3> QED
      BY <1>17, <1>18, <1>21, <2>2, <3>1, <3>2, <3>3, <3>4, <3>5
  <2> QED
    BY <2>1, <2>2
<1>23. Located(nx[1], nx[2])' /\ nx \in Position'
  BY <1>11, <1>12, <1>13, <1>14, <1>22 DEF Located
<1> QED
  BY <1>1, <1>12, <1>23 DEF ReaderInv

\* A step that leaves stream and bytes alone.
LEMMA QuietStep ==
  ASSUME ReaderInv, UNCHANGED <<stream, wire, src, clientMessage, currentFrame, readHeader, written>>,
         readerAt' \in {"socket", "parse", "closed"}, readerAt' = "socket" => NeedsMore
  PROVE  ReaderInv'
<1>1. PICK at \in Position : Located(at[1], at[2])
  BY DEF ReaderInv
<1> DEFINE k == at[1]
           i == at[2]
<1>2. Position' = Position /\ Total' = Total /\ StreamTyped' = StreamTyped /\ Place(k, i)' = Place(k, i)
  BY SameStream DEF Place
<1>3. Unread(k, i)'
  <2>1. Tiles(src', wire', Total', Place(k, i)')
    BY <1>1, <1>2 DEF Located, Unread
  <2> QED
    BY <2>1 DEF Unread
<1>4. Headed(k, i)' /\ Given(k, i)'
  BY <1>1 DEF Located, Headed, Given, AllWhole, ContentLength, FrameOf, Understood
<1>5. readerAt' = "socket" => NeedsMore'
  BY DEF NeedsMore, ContentSize
<1>6. at \in Position' /\ Located(k, i)'
  BY <1>2, <1>3, <1>4 DEF Located
<1> QED
  BY <1>2, <1>5, <1>6 DEF ReaderInv

LEMMA ReaderStepInv == ReaderInv /\ [ReaderNext]_readerVars => ReaderInv'
<1> SUFFICES ASSUME ReaderInv, [ReaderNext]_readerVars PROVE ReaderInv'
  OBVIOUS
<1>1. CASE \E n \in 1..MaxChunk : ReadSocket(n)
  BY <1>1, ReadSocketStep
<1>2. CASE ReadFails
  BY <1>2, QuietStep DEF ReadFails
<1>3. CASE ReadHeader
  BY <1>3, ReadHeaderStep
<1>4. CASE ReadContent
  BY <1>4, ReadContentStep
<1>5. CASE Parsed
  <2>1. UNCHANGED <<stream, wire, src, clientMessage, currentFrame, readHeader, written>>
    BY <1>5 DEF Parsed, ResetBuffer
  <2>2. readerAt' = "socket" /\ NeedsMore
    BY <1>5 DEF Parsed
  <2> QED
    BY <2>1, <2>2, QuietStep
<1>6. CASE UNCHANGED readerVars
  <2>1. /\ UNCHANGED <<stream, wire, src, clientMessage, currentFrame, readHeader, written>>
        /\ readerAt' = readerAt
    BY <1>6 DEF readerVars
  <2>2. readerAt \in {"socket", "parse", "closed"} /\ (readerAt = "socket" => NeedsMore)
    BY DEF ReaderInv
  <2> QED
    BY <2>1, <2>2, QuietStep
<1> QED
  BY <1>1, <1>2, <1>3, <1>4, <1>5, <1>6 DEF ReaderNext

\* The messages before the one that the reader is at have arrived, and no other.
LEMMA ArrivedFacts ==
  ASSUME ReaderInv, readerAt = "socket", NEW at \in Position, Located(at[1], at[2]), NEW c \in 0..Len(stream)
  PROVE  Len(Before(c)) <= ReadBytes <=> c <= at[1] - 1
<1> DEFINE k == at[1]
           i == at[2]
           n == Len(stream)
           o == Offset(k, i)
           t == Len(Total)
           ls == Len(src)
           lw == Len(wire)
           B(x) == Len(Before(x))
<1>1. StreamTyped /\ readHeader \in BOOLEAN /\ NeedsMore
  BY DEF ReaderInv
<1>2. /\ k \in 1..(n + 1) /\ n \in Nat /\ o \in Nat /\ t \in Nat
      /\ k <= n => k \in 1..n /\ i \in 1..FrameCount(k)
      /\ k > n => k = n + 1 /\ o = t
  BY <1>1, PositionFacts
<1>3. src \in Seq(Cells) /\ wire \in Seq(Cells) /\ Place(k, i) + ls + lw = t
  BY DEF Located, Unread, Tiles
<1>4. ls \in Nat /\ lw \in Nat
  BY <1>3
<1>5. ReadBytes = t - lw
  BY DEF ReadBytes, Total, Messages
<1>6. Place(k, i) \in Nat /\ o <= Place(k, i)
  BY <1>1, <1>2 DEF Place
<1>7. ReadBytes = Place(k, i) + ls
  <2> DEFINE q == Place(k, i)
  <2>1. q \in Nat /\ q + ls + lw = t
    BY <1>3, <1>6
  <2> HIDE DEF q, ls, lw, t
  <2>2. t - lw = q + ls
    BY <1>4, <2>1
  <2> QED
    BY <1>5, <2>2 DEF q
<1>8. \A x \in 0..n : B(x) \in Nat
  <2>1. \A x \in 0..n : Before(x) \in Seq(Cells)
    BY <1>1, BeforeFacts
  <2> QED
    BY <2>1
<1>9. \A x \in 0..n : \A y \in 0..x : B(y) <= B(x)
  BY <1>1, BeforeFacts
<1>10. k - 1 \in 0..n /\ c \in Nat
  BY <1>2
<1>11. B(k - 1) <= o
  <2>1. CASE k <= n
    BY <1>1, <1>2, <2>1, LayoutFacts
  <2>2. CASE k > n
    <3>1. k - 1 = n /\ Before(n) = Total
      BY <1>1, <1>2, <2>2, BeforeFacts
    <3> QED
      BY <1>2, <2>2, <3>1
  <2> QED
    BY <1>2, <2>1, <2>2
<1>12. ASSUME c <= k - 1 PROVE B(c) <= ReadBytes
  <2>1. c \in 0..(k - 1)
    BY <1>10, <1>12
  <2>2. B(c) <= B(k - 1) /\ B(c) \in Nat /\ B(k - 1) \in Nat
    BY <1>8, <1>9, <1>10, <2>1
  <2> DEFINE q == Place(k, i)
             b == B(c)
             d == B(k - 1)
  <2>3. b <= d /\ b \in Nat /\ d \in Nat /\ d <= o /\ o <= q /\ q \in Nat /\ ReadBytes = q + ls
    BY <1>6, <1>7, <1>11, <2>2
  <2> HIDE DEF q, b, d, o, ls
  <2>4. b <= ReadBytes
    BY <1>2, <1>4, <2>3
  <2> QED
    BY <2>4 DEF b
<1>13. ASSUME c > k - 1 PROVE ~(B(c) <= ReadBytes)
  <2>1. k <= n /\ k \in 1..n /\ k \in 0..c /\ i \in 1..FrameCount(k)
    BY <1>2, <1>10, <1>13
  <2> DEFINE l == ContentLength(k, i)
  <2>2. l \in Nat /\ o + 6 + l <= B(k) /\ B(k) \in Nat
    BY <1>1, <2>1, LayoutFacts, StreamFacts
  <2>3. B(k) <= B(c) /\ B(c) \in Nat
    BY <1>8, <1>9, <2>1
  <2>4. ReadBytes < o + 6 + l
    <3>1. SizeOfFrameLengthAndFlags = 6
      BY DEF Width, SizeOfFrameLengthAndFlags
    <3>2. CASE readHeader
      <4>1. currentFrame.length = l + 6 /\ Place(k, i) = o + 6
        BY <3>2 DEF Located, Headed, Place
      <4>2. ls < currentFrame.length - 6
        BY <1>1, <3>1, <3>2 DEF NeedsMore, ContentSize
      <4> HIDE DEF l, o, ls
      <4> QED
        BY <1>2, <1>4, <1>7, <2>2, <4>1, <4>2
    <3>3. CASE ~readHeader
      <4>1. Place(k, i) = o + 0
        BY <3>3 DEF Place
      <4>2. ls < 6
        BY <1>1, <3>1, <3>3 DEF NeedsMore
      <4> HIDE DEF l, o, ls
      <4> QED
        BY <1>2, <1>4, <1>7, <2>2, <4>1, <4>2
    <3> QED
      BY <3>2, <3>3
  <2> DEFINE b == B(c)
             d == B(k)
  <2>5. o + 6 + l <= d /\ d \in Nat /\ d <= b /\ b \in Nat
    BY <2>2, <2>3
  <2>6. ReadBytes \in Nat
    BY <1>4, <1>6, <1>7
  <2> HIDE DEF l, o, b, d
  <2>7. ~(b <= ReadBytes)
    BY <1>2, <2>2, <2>4, <2>5, <2>6
  <2> QED
    BY <2>7 DEF b
<1> QED
  BY <1>2, <1>10, <1>12, <1>13

LEMMA ReaderInvImplies == ReaderInv => StreamIsWhole
<1> SUFFICES ASSUME ReaderInv, readerAt \in {"socket", "panicked"} PROVE StreamIsWhole
  BY DEF StreamIsWhole
<1>1. StreamTyped /\ readerAt = "socket"
  BY DEF ReaderInv
<1>2. PICK at \in Position : Located(at[1], at[2])
  BY DEF ReaderInv
<1> DEFINE k == at[1]
           u == Understood
           complete == {c \in 1..Understood : Len(FlattenSeq([j \in 1..c |-> MessageBytes(j, stream[j])])) <= ReadBytes}
<1>3. k \in 1..(Len(stream) + 1) /\ Len(stream) \in Nat
  BY <1>1, PositionFacts
<1>4. u \in 0..Len(stream) /\ k - 1 \in 0..Len(stream) /\ (AllWhole(k - 1) <=> k - 1 <= u)
  BY <1>1, <1>3, UnderstoodFacts
<1>5. \A c \in 1..u : Len(FlattenSeq([j \in 1..c |-> MessageBytes(j, stream[j])])) <= ReadBytes <=> c <= k - 1
  <2>1. \A c \in 1..u : c \in 0..Len(stream)
    BY <1>3, <1>4
  <2>2. \A c \in 1..u : Len(Before(c)) <= ReadBytes <=> c <= k - 1
    BY <1>1, <1>2, <2>1, ArrivedFacts
  <2> QED
    BY <2>2 DEF Before
<1>6. complete = {c \in 1..u : c <= k - 1}
  BY <1>5
<1> HIDE DEF complete
<1>7. PICK z \in Nat : complete = 1..z /\ written = [j \in 1..z |-> Frames(j, stream[j])]
  <2>1. CASE AllWhole(k - 1)
    <3>1. written = [j \in 1..(k - 1) |-> Frames(j, stream[j])]
      BY <1>2, <2>1 DEF Located, Given
    <3>2. complete = 1..(k - 1) /\ k - 1 \in Nat
      BY <1>3, <1>4, <1>6, <2>1
    <3> QED
      BY <3>1, <3>2
  <2>2. CASE ~AllWhole(k - 1)
    <3>1. written = [j \in 1..u |-> Frames(j, stream[j])]
      BY <1>2, <2>2 DEF Located, Given
    <3>2. complete = 1..u /\ u \in Nat
      BY <1>3, <1>4, <1>6, <2>2
    <3> QED
      BY <3>1, <3>2
  <2> QED
    BY <2>1, <2>2
<1>8. Cardinality(complete) = z
  <2>1. Cardinality(1..z) = IF 1 > z THEN 0 ELSE z - 1 + 1
    BY FS_Interval
  <2>2. (IF 1 > z THEN 0 ELSE z - 1 + 1) = z
    OBVIOUS
  <2> QED
    BY <1>7, <2>1, <2>2
<1> QED
  BY <1>1, <1>7, <1>8 DEF StreamIsWhole, complete

(***************************************************************************)
(* However a stream is cut into chunks, whenever socketReadLoop waits for  *)
(* bytes it has handed over exactly the messages that arrived completely,  *)
(* unchanged and in their order, up to the first fragment: for all         *)
(* streams of messages with a first frame and all sizes of the buffer.     *)
(***************************************************************************)
THEOREM StreamsAreWhole == ReaderSpec => []StreamIsWhole
<1>1. ReaderInit => ReaderInv
  BY ReaderInitInv
<1>2. ReaderInv /\ [ReaderNext]_readerVars => ReaderInv'
  BY ReaderStepInv
<1>3. ReaderInv => StreamIsWhole
  BY ReaderInvImplies
<1> QED
  BY <1>1, <1>2, <1>3, PTL DEF ReaderSpec

---------------------------------------------------------------------------
(***************************************************************************)
(* The first frame of a message: its header and its fixed size fields.     *)
(* The run wire checks the layouts of the codecs (LaidOut) and sends a few *)
(* values through each; here the values, the header and the layout are     *)
(* arbitrary.                                                              *)
(***************************************************************************)
\* A fixed size value as an application can pass it: a Boolean is one of two
\* values, a UUID is nil (Zero) or identified by a sequence, any other value is
\* told apart only by its identity.
Fits(type, v) ==
    CASE type = "Boolean" -> v \in {Zero, One}
      [] type = "UUID"    -> v \in Seq(Int)
      [] OTHER            -> TRUE

FixedTypes == {"Boolean", "Byte", "Short", "Int", "Long", "UUID"}

\* The cells of a value stand in a buffer.
Holds(buffer, size, offset, cells) ==
    /\ Len(buffer) = size /\ offset + Len(cells) <= size
    /\ \A i \in 1..Len(cells) : buffer[offset + i] = cells[i]

\* The number of bytes of a fixed size value.
LEMMA WidthIs ==
    /\ Width["Boolean"] = 1 /\ Width["Byte"] = 1 /\ Width["Short"] = 2
    /\ Width["Int"] = 4 /\ Width["Long"] = 8 /\ Width["UUID"] = 17
  BY DEF Width

\* CellsOf gives the bytes of a value in order.
LEMMA CellsOfIs ==
    ASSUME NEW v, NEW w \in Nat
    PROVE  /\ Len(CellsOf(v, w)) = w /\ DOMAIN CellsOf(v, w) = 1..w
           /\ \A i \in 1..w : CellsOf(v, w)[i] = Cell(v, i - 1)
  BY DEF CellsOf

\* A byte belongs to one value only.
LEMMA CellIs == ASSUME NEW v, NEW u, NEW i, NEW j PROVE (Cell(v, i) = Cell(u, j)) <=> (v = u /\ i = j)
  BY DEF Cell

\* What was written is read, for a value of any width.
LEMMA GetReads ==
    ASSUME NEW buffer, NEW size \in Nat, NEW offset \in Nat, NEW w \in Nat \ {0}, NEW v,
           Len(buffer) = size, offset + w <= size,
           \A i \in 1..w : buffer[offset + i] = Cell(v, i - 1)
    PROVE  Get(buffer, offset, w) = v
  <1>1. buffer[offset + 1] = Cell(v, 0)
    <2>1. 1 \in 1..w /\ 1 - 1 = 0
      OBVIOUS
    <2> QED  BY <2>1
  <1>2. buffer[offset + 1].v = v
    BY <1>1 DEF Cell
  <1>3. ~(offset + w > Len(buffer))
    OBVIOUS
  <1> QED  BY <1>2, <1>3 DEF Get

\* FixSizedTypesCodec writes at most as many bytes as the value is wide: one
\* for a nil UUID.
LEMMA EncodedIs ==
    ASSUME NEW type \in FixedTypes, NEW v, Fits(type, v)
    PROVE  /\ Len(EncodeFixed(type, v)) \in 1..Width[type]
           /\ DOMAIN EncodeFixed(type, v) = 1..Len(EncodeFixed(type, v))
  <1>1. CASE type = "Boolean"
    BY <1>1, WidthIs DEF EncodeFixed, EncodeBoolean
  <1>2. CASE type = "UUID"
    <2>1. EncodeFixed(type, v) = EncodeUUID(v)
      BY <1>2 DEF EncodeFixed
    <2>2. CASE v = Zero
      BY <1>2, <2>1, <2>2, WidthIs DEF EncodeUUID, EncodeBoolean
    <2>3. CASE v # Zero
      <3> DEFINE b == CellsOf(v \o <<1>>, 8)  c == CellsOf(v \o <<2>>, 8)  cells == EncodeFixed(type, v)
      <3>1. Zero # One
        BY DEF Zero, One
      <3>3. cells = (<<Cell(Zero, 0)>> \o b) \o c
        BY <2>1, <2>3, <3>1 DEF EncodeUUID, EncodeBoolean
      <3>4. Len(cells) = 17 /\ DOMAIN cells = 1..17
        BY <3>3 DEF CellsOf
      <3> HIDE DEF cells
      <3>5. Width[type] = 17
        BY <1>2, WidthIs
      <3>6. Len(cells) \in 1..Width[type] /\ DOMAIN cells = 1..Len(cells)
        BY <3>4, <3>5
      <3> QED  BY <3>6 DEF cells
    <2> QED  BY <2>2, <2>3
  <1>3. CASE type \notin {"Boolean", "UUID"}
    <2>1. EncodeFixed(type, v) = CellsOf(v, Width[type])
      BY <1>3 DEF EncodeFixed
    <2>2. Width[type] \in Nat \ {0}
      BY <1>3, WidthIs DEF FixedTypes
    <2> QED  BY <2>1, <2>2, CellsOfIs
  <1> QED  BY <1>1, <1>2, <1>3

\* A field that stands in the buffer is read back as it was written.
LEMMA FixedReads ==
    ASSUME NEW type \in FixedTypes, NEW v, Fits(type, v), NEW buffer, NEW size \in Nat, NEW offset \in Nat,
           Holds(buffer, size, offset, EncodeFixed(type, v)), offset + Width[type] <= size
    PROVE  DecodeFixed(type, buffer, offset) = v
  <1> DEFINE cells == EncodeFixed(type, v)
  <1>0. Zero # One
    BY DEF Zero, One
  <1>1. CASE type = "Boolean"
    <2>1. cells = <<Cell(v, 0)>>
      BY <1>0, <1>1 DEF EncodeFixed, EncodeBoolean, Fits
    <2>2. buffer[offset + 1] = Cell(v, 0) /\ ~(offset >= Len(buffer))
      BY <2>1 DEF Holds
    <2>3. DecodeFixed(type, buffer, offset) = DecodeBoolean(buffer, offset)
      BY <1>1 DEF DecodeFixed
    <2> QED  BY <1>0, <1>1, <2>2, <2>3, CellIs DEF DecodeBoolean, Fits
  <1>2. CASE type = "UUID"
    <2>1. DecodeFixed(type, buffer, offset) = DecodeUUID(buffer, offset) /\ cells = EncodeUUID(v)
      BY <1>2 DEF DecodeFixed, EncodeFixed
    <2>2. CASE v = Zero
      <3>1. cells = <<Cell(One, 0)>>
        BY <2>1, <2>2 DEF EncodeUUID, EncodeBoolean
      <3>2. DecodeBoolean(buffer, offset) = One
        BY <3>1 DEF DecodeBoolean, Holds
      <3> QED  BY <2>1, <2>2, <3>2 DEF DecodeUUID
    <2>3. CASE v # Zero
      <3> DEFINE b == CellsOf(v \o <<1>>, 8)  c == CellsOf(v \o <<2>>, 8)
      <3>0. v \in Seq(Int)
        BY <1>2 DEF Fits
      <3>1. cells = (<<Cell(Zero, 0)>> \o b) \o c
        BY <1>0, <2>1, <2>3 DEF EncodeUUID, EncodeBoolean
      <3>2. /\ Len(cells) = 17 /\ cells[1] = Cell(Zero, 0)
            /\ \A i \in 1..8 : cells[1 + i] = b[i] /\ cells[9 + i] = c[i]
        BY <3>1 DEF CellsOf
      <3>3. /\ Len(buffer) = size /\ offset + 17 <= size /\ buffer[offset + 1] = Cell(Zero, 0)
            /\ \A i \in 1..8 : buffer[(offset + 1) + i] = b[i] /\ buffer[(offset + 9) + i] = c[i]
        <4>1. ASSUME NEW i \in 1..8
              PROVE  buffer[(offset + 1) + i] = b[i] /\ buffer[(offset + 9) + i] = c[i]
          <5>1. 1 + i \in 1..Len(cells) /\ 9 + i \in 1..Len(cells)
            BY <3>2
          <5>2. buffer[offset + (1 + i)] = cells[1 + i] /\ buffer[offset + (9 + i)] = cells[9 + i]
            BY <5>1 DEF Holds
          <5>3. offset + (1 + i) = (offset + 1) + i /\ offset + (9 + i) = (offset + 9) + i
            OBVIOUS
          <5> QED  BY <3>2, <5>2, <5>3
        <4> HIDE DEF b, c
        <4>2. buffer[offset + 1] = cells[1] /\ Len(buffer) = size /\ offset + 17 <= size
          BY <3>2 DEF Holds
        <4> QED  BY <3>2, <4>1, <4>2
      <3>4. DecodeBoolean(buffer, offset) # One
        BY <1>0, <3>3, CellIs DEF DecodeBoolean
      <3>5. Get(buffer, offset + 1, 8) = v \o <<1>>
        <4> DEFINE u == v \o <<1>>  o == offset + 1
        <4>1. \A i \in 1..8 : b[i] = Cell(u, i - 1)
          BY CellsOfIs
        <4>2. \A i \in 1..8 : buffer[o + i] = b[i]
          BY <3>3
        <4>3. o \in Nat /\ o + 8 <= size /\ Len(buffer) = size
          BY <3>3
        <4> DEFINE w == 8
        <4> HIDE DEF b, c, u, o
        <4>4. \A i \in 1..w : buffer[o + i] = Cell(u, i - 1)
          BY <4>1, <4>2, Zenon
        <4>6. w \in Nat \ {0} /\ o + w <= size
          BY <4>3
        <4> HIDE DEF w
        <4>5. Get(buffer, o, w) = u
          BY <4>3, <4>4, <4>6, GetReads
        <4> QED  BY <4>5 DEF u, o, w
      <3>6. Get(buffer, offset + 9, 8) = v \o <<2>>
        <4> DEFINE u == v \o <<2>>  o == offset + 9
        <4>1. \A i \in 1..8 : c[i] = Cell(u, i - 1)
          BY CellsOfIs
        <4>2. \A i \in 1..8 : buffer[o + i] = c[i]
          BY <3>3
        <4>3. o \in Nat /\ o + 8 <= size /\ Len(buffer) = size
          BY <3>3
        <4> DEFINE w == 8
        <4> HIDE DEF b, c, u, o
        <4>4. \A i \in 1..w : buffer[o + i] = Cell(u, i - 1)
          BY <4>1, <4>2, Zenon
        <4>6. w \in Nat \ {0} /\ o + w <= size
          BY <4>3
        <4> HIDE DEF w
        <4>5. Get(buffer, o, w) = u
          BY <4>3, <4>4, <4>6, GetReads
        <4> QED  BY <4>5 DEF u, o, w
      <3>7. /\ Front(v \o <<1>>) = v /\ Front(v \o <<2>>) = v
            /\ Last(v \o <<1>>) = 1 /\ Last(v \o <<2>>) = 2
        BY <3>0 DEF Front, Last
      <3> QED  BY <2>1, <3>4, <3>5, <3>6, <3>7 DEF DecodeUUID
    <2> QED  BY <2>2, <2>3
  <1>3. CASE type \notin {"Boolean", "UUID"}
    <2>1. cells = CellsOf(v, Width[type]) /\ DecodeFixed(type, buffer, offset) = Get(buffer, offset, Width[type])
      BY <1>3 DEF EncodeFixed, DecodeFixed
    <2>2. Width[type] \in Nat \ {0}
      BY <1>3, WidthIs DEF FixedTypes
    <2>3. \A i \in 1..Width[type] : buffer[offset + i] = Cell(v, i - 1)
      BY <2>1, <2>2, CellsOfIs DEF Holds
    <2> QED  BY <2>1, <2>2, <2>3, GetReads DEF Holds
  <1> QED  BY <1>1, <1>2, <1>3

\* A layout of fixed size fields and the values written to it.
FieldsGiven(fixed, values) ==
    \A k \in DOMAIN fixed : /\ fixed[k].type \in FixedTypes /\ fixed[k].offset \in Nat
                           /\ Fits(fixed[k].type, values[k].a) /\ values[k] = Atom(values[k].a)

\* Every field stands at its offset, whatever the fields around it hold.
LEMMA FieldStands ==
    ASSUME NEW h \in Nat, NEW size \in Nat, NEW fixed, NEW values, FieldsGiven(fixed, values), LaidOut(h, size, fixed),
           DOMAIN fixed \subseteq Nat, NEW peer, FrameSize(size, fixed, peer) \in Nat,
           DOMAIN Written(fixed, peer) \subseteq DOMAIN fixed, NEW k \in DOMAIN Written(fixed, peer),
           fixed[k].offset + Width[fixed[k].type] <= FrameSize(size, fixed, peer)
    PROVE  Holds(EncodeFields(size, fixed, values, peer), FrameSize(size, fixed, peer), fixed[k].offset,
                 EncodeFixed(fixed[k].type, values[k].a))
  <1> DEFINE CellsAt(j) == EncodeFixed(fixed[j].type, values[j].a)
             Over(i) == {j \in DOMAIN Written(fixed, peer) : i - fixed[j].offset \in DOMAIN CellsAt(j)}
             Latest(i) == CHOOSE j \in Over(i) : \A l \in Over(i) : l <= j
             first == EncodeFields(size, fixed, values, peer)
             all == FrameSize(size, fixed, peer)
             D == DOMAIN Written(fixed, peer)
  <1>1. D \subseteq DOMAIN fixed /\ k \in DOMAIN fixed /\ all \in Nat
    OBVIOUS
  <1>2. /\ Len(first) = all
        /\ \A i \in 1..all : Over(i) # {} => first[i] = CellsAt(Latest(i))[i - fixed[Latest(i)].offset]
    <2>1. first = [i \in 1..all |->
                     IF Over(i) = {} THEN Cell(Zero, 0) ELSE CellsAt(Latest(i))[i - fixed[Latest(i)].offset]]
      BY DEF EncodeFields
    <2> HIDE DEF first, Over, Latest, CellsAt, all
    <2> QED  BY <1>1, <2>1
  <1>4. \A j \in DOMAIN fixed : /\ fixed[j].offset \in Nat /\ Width[fixed[j].type] \in Nat
                               /\ Len(CellsAt(j)) \in 1..Width[fixed[j].type]
                               /\ DOMAIN CellsAt(j) = 1..Len(CellsAt(j))
    <2> TAKE j \in DOMAIN fixed
    <2>1. fixed[j].offset \in Nat /\ fixed[j].type \in FixedTypes /\ Fits(fixed[j].type, values[j].a)
      BY DEF FieldsGiven
    <2>2. Width[fixed[j].type] \in Nat
      BY <2>1, WidthIs DEF FixedTypes
    <2> QED  BY <2>1, <2>2, EncodedIs
  <1>5. fixed[k].offset + Len(CellsAt(k)) <= all
    BY <1>1, <1>4 DEF LaidOut
  <1>6. ASSUME NEW i \in 1..Len(CellsAt(k))
        PROVE  first[fixed[k].offset + i] = CellsAt(k)[i]
    <2> DEFINE p == fixed[k].offset + i
    <2>1. p \in 1..all /\ p - fixed[k].offset = i /\ p \in Nat
      BY <1>1, <1>4, <1>5
    <2>2. k \in Over(p)
      BY <1>1, <1>4, <2>1
    <2>3. ASSUME NEW j \in Over(p), j # k
          PROVE  FALSE
      <3> DEFINE wj == Width[fixed[j].type]  wk == Width[fixed[k].type]  oj == fixed[j].offset  ok == fixed[k].offset
      <3>1. oj + wj <= ok \/ ok + wk <= oj
        BY <1>1, <2>3 DEF LaidOut
      <3>2. p - oj \in 1..wj /\ p - ok \in 1..wk
        <4>1. j \in DOMAIN fixed /\ p - oj \in DOMAIN CellsAt(j)
          BY <1>1
        <4> HIDE DEF CellsAt, Over, p
        <4>2. p - oj \in 1..Len(CellsAt(j)) /\ Len(CellsAt(j)) \in 1..wj
          BY <1>4, <4>1
        <4>3. p - ok \in 1..Len(CellsAt(k)) /\ Len(CellsAt(k)) \in 1..wk
          BY <1>4, <2>1
        <4> DEFINE lj == Len(CellsAt(j))  lk == Len(CellsAt(k))
        <4>4. wj \in Nat /\ wk \in Nat
          BY <1>4, <4>1
        <4> HIDE DEF lj, lk, oj, ok, wj, wk
        <4>5. p - oj \in 1..lj /\ lj \in 1..wj /\ p - ok \in 1..lk /\ lk \in 1..wk
          BY <4>2, <4>3 DEF lj, lk
        <4> QED  BY <4>4, <4>5
      <3>3. oj \in Nat /\ ok \in Nat /\ wj \in Nat /\ wk \in Nat
        BY <1>1, <1>4
      <3>4. p \in Nat
        BY <2>1
      <3> HIDE DEF oj, ok, wj, wk, p
      <3> QED  BY <3>1, <3>2, <3>3, <3>4
    <2>4. Over(p) = {k}
      <3> HIDE DEF Over, p
      <3> QED  BY <2>2, <2>3
    <2>5. Latest(p) = k
      <3>1. k \in Over(p) /\ \A l \in Over(p) : l <= k
        BY <2>4
      <3>2. Latest(p) \in Over(p)
        BY <3>1
      <3> HIDE DEF Over, p
      <3> QED  BY <2>4, <3>2
    <2>6. first[p] = CellsAt(Latest(p))[p - fixed[Latest(p)].offset]
      <3> HIDE DEF Over, Latest, CellsAt
      <3> QED  BY <1>2, <2>1, <2>4
    <2> QED  BY <2>1, <2>5, <2>6
  <1> QED  BY <1>2, <1>5, <1>6 DEF Holds

\* The fields come in the order of their offsets, those that were added to
\* the protocol later at the end.
InOrder(fixed) ==
    \A j, k \in DOMAIN fixed :
        j < k => /\ fixed[j].offset < fixed[k].offset
                 /\ fixed[j].guard # "always" => fixed[k].guard # "always"

\* What a member writes: all fields, and more bytes when it is newer; an older
\* one stops at the first field it does not know.
LEMMA FrameWritten ==
    ASSUME NEW size \in Nat, NEW S, NEW fixed \in Seq(S), InOrder(fixed), NEW peer \in Peers
    PROVE  \/ /\ Written(fixed, peer) = fixed
              /\ FrameSize(size, fixed, peer) = IF peer = "newer" THEN size + 3 ELSE size
              /\ peer = "older" => \A k \in DOMAIN fixed : fixed[k].guard = "always"
           \/ /\ peer = "older"
              /\ \E m \in DOMAIN fixed :
                    /\ FrameSize(size, fixed, peer) = fixed[m].offset
                    /\ DOMAIN Written(fixed, peer) = 1..(m - 1)
                    /\ \A k \in DOMAIN fixed : fixed[k].guard = "always" <=> k < m
  <1> DEFINE added == {k \in DOMAIN fixed : fixed[k].guard # "always"}
  <1>1. CASE ~(peer = "older" /\ added # {})
    <2>1. Written(fixed, peer) = fixed
      BY <1>1 DEF Written
    <2>2. peer = "older" => \A k \in DOMAIN fixed : fixed[k].guard = "always"
      BY <1>1
    <2> QED  BY <2>1, <2>2 DEF FrameSize, Peers
  <1>2. CASE peer = "older" /\ added # {}
    <2> DEFINE m == Min(added)  prefix == SubSeq(fixed, 1, m - 1)
    <2>0. DOMAIN fixed = 1..Len(fixed) /\ Len(fixed) \in Nat
      OBVIOUS
    <2>1. m \in added /\ \A k \in added : m <= k
      <3>1. added \in SUBSET Nat
        BY <2>0
      <3>2. \E i \in added : \A j \in added : i <= j
        BY <1>2, <3>1, LeastExists
      <3> HIDE DEF added
      <3> QED  BY <3>2 DEF Min
    <2>2. Written(fixed, peer) = prefix
      BY <1>2 DEF Written
    <2>3. m \in 1..Len(fixed) /\ fixed[m].guard # "always"
      BY <2>0, <2>1
    <2>4. \A k \in DOMAIN fixed : fixed[k].guard = "always" <=> k < m
      <3>1. ASSUME NEW k \in DOMAIN fixed, k < m PROVE fixed[k].guard = "always"
        <4>1. k \notin added
          <5> HIDE DEF m, added
          <5> QED  BY <2>0, <2>1, <2>3, <3>1
        <4> QED  BY <4>1
      <3>2. ASSUME NEW k \in DOMAIN fixed, ~(k < m) PROVE fixed[k].guard # "always"
        <4> HIDE DEF m
        <4> QED  BY <2>0, <2>3, <3>2 DEF InOrder
      <3> QED  BY <3>1, <3>2
    <2> HIDE DEF added, m
    <2>5. Len(prefix) = m - 1 /\ DOMAIN prefix = 1..(m - 1)
      BY <2>3
    <2>6. prefix # fixed /\ Len(prefix) + 1 = m
      BY <2>3, <2>5
    <2> HIDE DEF prefix
    <2>7. FrameSize(size, fixed, peer) = fixed[m].offset
      BY <1>2, <2>2, <2>6 DEF FrameSize
    <2>8. m \in DOMAIN fixed
      BY <2>0, <2>3
    <2>9. DOMAIN Written(fixed, peer) = 1..(m - 1)
      BY <2>2, <2>5
    <2> QED  BY <1>2, <2>4, <2>7, <2>8, <2>9
  <1> QED  BY <1>1, <1>2

(***************************************************************************)
(* FixSizedTypesCodec and the length guards of the decoders.  Whatever the *)
(* layout of the fixed size fields, as long as they lie apart, and         *)
(* whatever their values, every field that a member of the client's        *)
(* version, a newer or an older one writes is read back as written, and a  *)
(* field that an older member does not write has its default.  One field   *)
(* is lost although it was written: one of one byte at the end of the      *)
(* frame that is guarded with len(content) > offset + 1 (isInfiniteRows of *)
(* SqlExecute), until a newer member writes something behind it.           *)
(***************************************************************************)
THEOREM FieldsAreRead ==
    ASSUME NEW h \in Nat, NEW size \in Nat, NEW S, NEW fixed \in Seq(S), NEW values, FieldsGiven(fixed, values),
           LaidOut(h, size, fixed), InOrder(fixed), NEW peer \in Peers, NEW k \in DOMAIN fixed,
           fixed[k].guard \in {"always", ">=", ">"}
    PROVE  LET content == EncodeFields(size, fixed, values, peer)
               missing == fixed[k].guard # "always" /\ peer = "older"
               lost    == fixed[k].guard = ">" /\ fixed[k].offset + 1 = size /\ peer = "same"
           IN  DecodeFields(fixed, content)[k] = IF missing \/ lost THEN Atom(Zero) ELSE values[k]
  <1> DEFINE content == EncodeFields(size, fixed, values, peer)
             all == FrameSize(size, fixed, peer)
             at == fixed[k].offset  kind == fixed[k].type  w == Width[kind]  v == values[k].a
             missing == fixed[k].guard # "always" /\ peer = "older"
             lost == fixed[k].guard = ">" /\ at + 1 = size /\ peer = "same"
             result == IF missing \/ lost THEN Atom(Zero) ELSE values[k]
  <1>1. at \in Nat /\ kind \in FixedTypes /\ Fits(kind, v) /\ at + w <= size /\ values[k] = Atom(v)
    BY DEF FieldsGiven, LaidOut
  <1>2. w \in Nat \ {0} /\ DOMAIN fixed \subseteq Nat
    BY <1>1, WidthIs DEF FixedTypes
  <1>3. DecodeFields(fixed, content)[k] = DecodeField(fixed[k], content)
    BY DEF DecodeFields
  <1>4. ASSUME all \in Nat PROVE Len(content) = all
    <2>1. DOMAIN content = 1..all
      BY DEF EncodeFields
    <2> HIDE DEF content, all
    <2> QED  BY <1>4, <2>1
  <1>5. ASSUME all \in Nat, DOMAIN Written(fixed, peer) \subseteq DOMAIN fixed, k \in DOMAIN Written(fixed, peer),
               at + w <= all
        PROVE  DecodeFixed(kind, content, at) = v
    <2>1. Holds(content, all, at, EncodeFixed(kind, v))
      BY <1>2, <1>5, FieldStands
    <2> HIDE DEF content, all, at, kind, v
    <2> QED  BY <1>1, <1>5, <2>1, FixedReads
  <1>6. CASE /\ Written(fixed, peer) = fixed
             /\ all = IF peer = "newer" THEN size + 3 ELSE size
             /\ peer = "older" => fixed[k].guard = "always"
    <2> SUFFICES DecodeFields(fixed, content)[k] = result
      BY DEF content, at
    <2> HIDE DEF content, all, at, kind, w, v
    <2>1. all \in Nat /\ at + w <= all /\ Len(content) = all
      BY <1>1, <1>2, <1>4, <1>6
    <2>2. DecodeFixed(kind, content, at) = v
      BY <1>5, <1>6, <2>1
    <2>3. CASE lost
      <3>1. ~(Len(content) > at + 1) /\ fixed[k].guard = ">"
        BY <1>1, <1>6, <2>1, <2>3
      <3>2. DecodeField(fixed[k], content) = Atom(Zero)
        BY <3>1 DEF DecodeField, at
      <3>3. result = Atom(Zero)
        BY <2>3
      <3> QED  BY <1>3, <3>2, <3>3
    <2>4. CASE ~lost
      <3>1. Len(content) >= at + 1 /\ (fixed[k].guard = ">" => Len(content) > at + 1)
        BY <1>1, <1>2, <1>6, <2>1, <2>4 DEF Peers
      <3>2. DecodeField(fixed[k], content) = Atom(DecodeFixed(kind, content, at))
        BY <3>1 DEF DecodeField, at, kind
      <3>3. result = Atom(v)
        BY <1>1, <1>6, <2>4
      <3> QED  BY <1>3, <2>2, <3>2, <3>3
    <2> QED  BY <2>3, <2>4
  <1>7. ASSUME peer = "older", NEW m \in DOMAIN fixed, all = fixed[m].offset, DOMAIN Written(fixed, peer) = 1..(m - 1),
               fixed[k].guard = "always" <=> k < m
        PROVE  DecodeFields(fixed, content)[k] = result
    <2>1. all \in Nat
      BY <1>7 DEF FieldsGiven
    <2>2. CASE k < m
      <3>1. DOMAIN Written(fixed, peer) \subseteq DOMAIN fixed /\ k \in DOMAIN Written(fixed, peer)
        BY <1>7, <2>2
      <3>2. at < all
        BY <1>7, <2>2 DEF InOrder
      <3>3. at + w <= all
        <4> DEFINE wm == Width[fixed[m].type]
        <4>1. at + w <= all \/ all + wm <= at
          BY <1>7, <2>2 DEF LaidOut
        <4>2. wm \in Nat
          BY WidthIs DEF FieldsGiven, FixedTypes
        <4> HIDE DEF at, w, all, wm
        <4> QED  BY <1>1, <1>2, <2>1, <3>2, <4>1, <4>2
      <3> HIDE DEF content, all, at, kind, w, v
      <3>4. DecodeFixed(kind, content, at) = v
        BY <1>5, <2>1, <3>1, <3>3
      <3>5. DecodeField(fixed[k], content) = Atom(DecodeFixed(kind, content, at))
        BY <1>7, <2>2 DEF DecodeField, at, kind
      <3> QED  BY <1>1, <1>3, <1>7, <2>2, <3>4, <3>5
    <2>3. CASE ~(k < m)
      <3>1. all <= at
        <4>1. k = m \/ m < k
          BY <1>2, <2>3
        <4> QED  BY <1>1, <1>7, <2>1, <4>1 DEF InOrder
      <3>2. Len(content) = all
        BY <1>4, <2>1
      <3> HIDE DEF content, all, at, kind, w, v
      <3>3. ~(Len(content) > at + 1) /\ ~(Len(content) >= at + 1)
        BY <1>1, <2>1, <3>1, <3>2
      <3>4. fixed[k].guard \in {">=", ">"}
        BY <1>7, <2>3
      <3>5. DecodeField(fixed[k], content) = Atom(Zero)
        BY <3>3, <3>4 DEF DecodeField, at
      <3> QED  BY <1>3, <1>7, <3>4, <3>5
    <2> QED  BY <2>2, <2>3
  <1> HIDE DEF content, at
  <1>8. DecodeFields(fixed, content)[k] = result
    <2>1. CASE /\ Written(fixed, peer) = fixed
               /\ all = IF peer = "newer" THEN size + 3 ELSE size
               /\ peer = "older" => \A j \in DOMAIN fixed : fixed[j].guard = "always"
      BY <1>6, <2>1 DEF content, at
    <2>2. ASSUME peer = "older", NEW m \in DOMAIN fixed, all = fixed[m].offset,
                 DOMAIN Written(fixed, peer) = 1..(m - 1),
                 \A j \in DOMAIN fixed : fixed[j].guard = "always" <=> j < m
          PROVE  DecodeFields(fixed, content)[k] = result
      <3>1. fixed[k].guard = "always" <=> k < m
        BY <2>2
      <3> QED  BY <1>7, <2>2, <3>1
    <2> HIDE DEF all, result
    <2>3. \/ /\ Written(fixed, peer) = fixed
             /\ all = IF peer = "newer" THEN size + 3 ELSE size
             /\ peer = "older" => \A j \in DOMAIN fixed : fixed[j].guard = "always"
          \/ /\ peer = "older"
             /\ \E m \in DOMAIN fixed :
                   /\ all = fixed[m].offset
                   /\ DOMAIN Written(fixed, peer) = 1..(m - 1)
                   /\ \A j \in DOMAIN fixed : fixed[j].guard = "always" <=> j < m
      BY FrameWritten DEF all
    <2> QED  BY <2>1, <2>2, <2>3
  <1> QED  BY <1>8 DEF content, at

\* Writing one value leaves a value that lies apart from it as it stood.
LEMMA PutKeeps ==
    ASSUME NEW buffer, NEW size \in Nat, DOMAIN buffer = 1..size, NEW o \in Nat, NEW w \in Nat, NEW v,
           NEW at \in Nat, NEW cells, NEW l \in Nat, Len(cells) = l, Holds(buffer, size, at, cells),
           at + l <= o \/ o + w <= at
    PROVE  Holds(Put(buffer, o, CellsOf(v, w)), size, at, cells)
  <1> DEFINE after == Put(buffer, o, CellsOf(v, w))
  <1>1. DOMAIN CellsOf(v, w) = 1..w
    BY CellsOfIs
  <1>2. Len(after) = size /\ at + Len(cells) <= size
    BY DEF Put, Holds
  <1>3. ASSUME NEW i \in 1..l
        PROVE  after[at + i] = cells[i]
    <2>1. at + i \in 1..size /\ ~(at + i - o \in 1..w) /\ buffer[at + i] = cells[i]
      BY DEF Holds
    <2> QED  BY <1>1, <2>1 DEF Put
  <1> HIDE DEF after
  <1>4. Holds(after, size, at, cells)
    BY <1>2, <1>3 DEF Holds
  <1> QED  BY <1>4 DEF after

\* What is written stands where it was written.
LEMMA PutStands ==
    ASSUME NEW buffer, NEW size \in Nat, DOMAIN buffer = 1..size, NEW o \in Nat, NEW w \in Nat, NEW v, o + w <= size
    PROVE  /\ Holds(Put(buffer, o, CellsOf(v, w)), size, o, CellsOf(v, w))
           /\ DOMAIN Put(buffer, o, CellsOf(v, w)) = 1..size
  <1> DEFINE after == Put(buffer, o, CellsOf(v, w))  cells == CellsOf(v, w)
  <1>1. DOMAIN cells = 1..w /\ Len(cells) = w
    BY CellsOfIs
  <1> HIDE DEF cells
  <1>2. Len(after) = size /\ DOMAIN after = 1..size
    BY DEF Put
  <1>3. ASSUME NEW i \in 1..w
        PROVE  after[o + i] = cells[i]
    <2> DEFINE p == o + i
    <2>1. p \in 1..size /\ p - o = i
      OBVIOUS
    <2> HIDE DEF p
    <2>2. after[p] = cells[i]
      BY <1>1, <2>1 DEF Put, cells
    <2> QED  BY <2>2 DEF p
  <1> HIDE DEF after
  <1>4. Holds(after, size, o, cells)
    BY <1>1, <1>2, <1>3 DEF Holds
  <1> QED  BY <1>2, <1>4 DEF after, cells

\* A field of the header is set in the first frame, and in no other.
LEMMA HeaderSet ==
    ASSUME NEW frames, NEW n \in Nat \ {0}, Len(frames) = n, DOMAIN frames = 1..n, NEW o, NEW type, NEW v,
           \A k \in 1..n : DOMAIN frames[k] = {"flags", "content"}
    PROVE  LET after == SetHeader(frames, o, type, v)
           IN  /\ Len(after) = n /\ DOMAIN after = 1..n
               /\ \A k \in 1..n : after[k].flags = frames[k].flags /\ DOMAIN after[k] = {"flags", "content"}
               /\ after[1].content = Put(frames[1].content, o, CellsOf(v, Width[type]))
               /\ \A k \in 2..n : after[k] = frames[k]
  BY DEF SetHeader

\* The same for a message of one frame.
LEMMA FirstHeaderSet ==
    ASSUME NEW flags, NEW content, NEW o, NEW type, NEW v
    PROVE  SetHeader(<<NewFrameWith(content, flags)>>, o, type, v) =
             <<NewFrameWith(Put(content, o, CellsOf(v, Width[type])), flags)>>
  BY DEF SetHeader, NewFrameWith

\* Write marks the last frame and leaves what the frames hold alone.
LEMMA WriteMarks ==
    ASSUME NEW frames, NEW n \in Nat \ {0}, Len(frames) = n, DOMAIN frames = 1..n,
           \A k \in 1..n : DOMAIN frames[k] = {"flags", "content"}
    PROVE  \A k \in 1..n : /\ Write(frames)[k].content = frames[k].content
                          /\ Write(frames)[k].flags = IF k = n THEN frames[k].flags \union {"IsFinal"} ELSE frames[k].flags
  BY DEF Write

(***************************************************************************)
(* Encode...Request, SetCorrelationID of the invocation and Write.  For    *)
(* every type, partition, correlation ID, layout of fields behind the      *)
(* header and values, what the three put into the first frame is read from *)
(* it: they do not overwrite each other.  Exactly the last frame is marked *)
(* as final, and the contents of the other frames are left alone.          *)
(***************************************************************************)
THEOREM FirstFrameArrives ==
    ASSUME NEW size \in Nat, NEW fixed, NEW values, DOMAIN fixed \subseteq Nat, FieldsGiven(fixed, values),
           \A k \in DOMAIN fixed : fixed[k].guard = "always",
           RequestHeaderSize <= size, LaidOut(RequestHeaderSize, size, fixed),
           NEW type, NEW partition, NEW correlation,
           NEW S, NEW rest \in Seq(S),
           \A k \in 1..Len(rest) : DOMAIN rest[k] = {"flags", "content"} /\ ~IsFinalFrame(rest[k])
    PROVE  LET initial == NewFrameWith(EncodeFields(size, fixed, values, "same"), UnfragmentedMessage)
               first   == SetPartitionId(SetMessageType(<<initial>>, type), partition)
               frames  == Write(SetCorrelationID(first \o rest, correlation))
           IN  /\ MessageType(frames) = type /\ CorrelationID(frames) = correlation
               /\ PartitionID(frames) = partition
               /\ DecodeFields(fixed, frames[1].content) = [k \in DOMAIN fixed |-> values[k]]
               /\ \A k \in 1..(Len(rest) + 1) : IsFinalFrame(frames[k]) <=> k = Len(rest) + 1
               /\ \A k \in 1..Len(rest) : frames[k + 1].content = rest[k].content
  <1> DEFINE initial == NewFrameWith(EncodeFields(size, fixed, values, "same"), UnfragmentedMessage)
             first   == SetPartitionId(SetMessageType(<<initial>>, type), partition)
             c0 == EncodeFields(size, fixed, values, "same")
             c1 == Put(c0, 0, CellsOf(type, 4))
             c2 == Put(c1, 12, CellsOf(partition, 4))
             c3 == Put(c2, 4, CellsOf(correlation, 8))
             whole  == first \o rest
             set    == SetCorrelationID(whole, correlation)
             frames == Write(set)
             n == Len(rest) + 1
  <1>0. RequestHeaderSize = 16 /\ 16 \in Nat /\ 16 <= size
    BY WidthIs DEF RequestHeaderSize, PartitionIDOffset
  <1>1. first = <<NewFrameWith(c2, UnfragmentedMessage)>>
    <2>1. SetMessageType(<<initial>>, type) = <<NewFrameWith(c1, UnfragmentedMessage)>>
      BY FirstHeaderSet, WidthIs DEF SetMessageType, TypeFieldOffset
    <2>2. SetPartitionId(<<NewFrameWith(c1, UnfragmentedMessage)>>, partition) = <<NewFrameWith(c2, UnfragmentedMessage)>>
      BY FirstHeaderSet, WidthIs DEF SetPartitionId, PartitionIDOffset
    <2> QED  BY <2>1, <2>2
  <1>2. /\ n \in Nat \ {0} /\ Len(whole) = n /\ DOMAIN whole = 1..n
        /\ whole[1] = NewFrameWith(c2, UnfragmentedMessage)
        /\ \A k \in 1..Len(rest) : whole[k + 1] = rest[k]
    <2> HIDE DEF c2, first
    <2> QED  BY <1>1
  <1>3. \A k \in 1..n : DOMAIN whole[k] = {"flags", "content"}
    <2> HIDE DEF whole, n
    <2>1. DOMAIN whole[1] = {"flags", "content"}
      BY <1>2 DEF NewFrameWith
    <2>3. ASSUME NEW k \in 1..n, k # 1 PROVE DOMAIN whole[k] = {"flags", "content"}
      <3>1. k - 1 \in 1..Len(rest) /\ (k - 1) + 1 = k
        BY <2>3 DEF n
      <3> QED  BY <1>2, <3>1
    <2> QED  BY <2>1, <2>3
  <1>4. /\ Len(set) = n /\ DOMAIN set = 1..n
        /\ \A k \in 1..n : set[k].flags = whole[k].flags /\ DOMAIN set[k] = {"flags", "content"}
        /\ set[1].content = c3
        /\ \A k \in 2..n : set[k] = whole[k]
    <2>1. whole[1].content = c2
      BY <1>2 DEF NewFrameWith
    <2>2. set = SetHeader(whole, 4, "Long", correlation) /\ Width["Long"] = 8
      BY WidthIs DEF SetCorrelationID, CorrelationIDFieldOffset
    <2>3. n \in Nat \ {0} /\ Len(whole) = n /\ DOMAIN whole = 1..n /\ \A k \in 1..n : DOMAIN whole[k] = {"flags", "content"}
      BY <1>2, <1>3
    <2> HIDE DEF whole, n, c2, set
    <2>4. LET after == SetHeader(whole, 4, "Long", correlation)
          IN  /\ Len(after) = n /\ DOMAIN after = 1..n
              /\ \A k \in 1..n : after[k].flags = whole[k].flags /\ DOMAIN after[k] = {"flags", "content"}
              /\ after[1].content = Put(whole[1].content, 4, CellsOf(correlation, Width["Long"]))
              /\ \A k \in 2..n : after[k] = whole[k]
      BY <2>3, HeaderSet
    <2> QED  BY <2>1, <2>2, <2>4
  <1>5. \A k \in 1..n : /\ frames[k].content = set[k].content
                       /\ frames[k].flags = IF k = n THEN set[k].flags \union {"IsFinal"} ELSE set[k].flags
    <2>1. n \in Nat \ {0} /\ Len(set) = n /\ DOMAIN set = 1..n /\ \A k \in 1..n : DOMAIN set[k] = {"flags", "content"}
      BY <1>2, <1>4
    <2> HIDE DEF n, set
    <2> QED  BY <2>1, WriteMarks
  <1>6. frames[1].content = c3
    <2>1. 1 \in 1..n /\ set[1].content = c3
      BY <1>2, <1>4
    <2> HIDE DEF frames, set, c3, n
    <2> QED  BY <1>5, <2>1
  \* what stands in the first frame
  <1>7. DOMAIN c0 = 1..size
    BY DEF EncodeFields, FrameSize
  <1>8. /\ DOMAIN c1 = 1..size /\ DOMAIN c2 = 1..size /\ DOMAIN c3 = 1..size
    BY <1>7 DEF Put
  <1> DEFINE ct == CellsOf(type, 4)  cp == CellsOf(partition, 4)  cc == CellsOf(correlation, 8)
  <1>9. Len(ct) = 4 /\ Len(cp) = 4 /\ Len(cc) = 8
    BY CellsOfIs
  <1>10. Holds(c1, size, 0, ct)
    BY <1>0, <1>7, PutStands
  <1>11. Holds(c2, size, 0, ct) /\ Holds(c2, size, 12, cp)
    <2> DEFINE o == 12  w == 4  at == 0
    <2>1. o \in Nat /\ w \in Nat /\ at \in Nat /\ o + w <= size /\ at + w <= o
      BY <1>0
    <2>2. Holds(c1, size, at, ct) /\ Len(ct) = w /\ c2 = Put(c1, o, CellsOf(partition, w)) /\ cp = CellsOf(partition, w)
      BY <1>9, <1>10
    <2> HIDE DEF c1, c2, ct, cp, o, w, at
    <2>3. Holds(c2, size, at, ct)
      BY <1>8, <2>1, <2>2, PutKeeps
    <2>4. Holds(c2, size, o, cp)
      BY <1>8, <2>1, <2>2, PutStands
    <2> QED  BY <2>3, <2>4 DEF o, at
  <1>12. Holds(c3, size, 0, ct) /\ Holds(c3, size, 12, cp) /\ Holds(c3, size, 4, cc)
    <2> DEFINE o == 4  w == 8  low == 0  high == 12
    <2>1. /\ o \in Nat /\ w \in Nat /\ low \in Nat /\ high \in Nat
          /\ o + w <= size /\ low + o <= o /\ o + w <= high
      BY <1>0
    <2>2. /\ Holds(c2, size, low, ct) /\ Len(ct) = o /\ Holds(c2, size, high, cp) /\ Len(cp) = o
          /\ c3 = Put(c2, o, CellsOf(correlation, w)) /\ cc = CellsOf(correlation, w)
      BY <1>9, <1>11
    <2> HIDE DEF c2, c3, ct, cp, cc, o, w, low, high
    <2>3. Holds(c3, size, low, ct) /\ Holds(c3, size, high, cp)
      BY <1>8, <2>1, <2>2, PutKeeps
    <2>4. Holds(c3, size, o, cc)
      BY <1>8, <2>1, <2>2, PutStands
    <2> QED  BY <2>3, <2>4 DEF o, low, high
  <1>13. ASSUME NEW k \in DOMAIN fixed
         PROVE  DecodeFixed(fixed[k].type, c3, fixed[k].offset) = values[k].a
    <2> DEFINE at == fixed[k].offset  kind == fixed[k].type  v == values[k].a
               cells == EncodeFixed(kind, v)  l == Len(cells)
    <2>1. at \in Nat /\ kind \in FixedTypes /\ Fits(kind, v) /\ 16 <= at /\ at + Width[kind] <= size
      BY <1>0 DEF FieldsGiven, LaidOut
    <2>2. Holds(c0, size, at, cells)
      <3>1. FrameSize(size, fixed, "same") = size
        BY DEF FrameSize
      <3>2. Holds(c0, FrameSize(size, fixed, "same"), at, cells)
        <4>1. Written(fixed, "same") = fixed
          BY DEF Written
        <4> QED  BY <1>0, <2>1, <3>1, <4>1, FieldStands
      <3> QED  BY <3>1, <3>2
    <2>3. l \in Nat
      <3>1. l \in 1..Width[kind]
        BY <2>1, EncodedIs
      <3>2. Width[kind] \in Nat
        BY <2>1, WidthIs DEF FixedTypes
      <3> HIDE DEF l, kind
      <3> QED  BY <3>1, <3>2
    <2> HIDE DEF at, kind, v, cells
    <2>4. Holds(c1, size, at, cells)
      <3> DEFINE o == 0  w == 4
      <3>1. o \in Nat /\ w \in Nat /\ o + w <= at /\ c1 = Put(c0, o, CellsOf(type, w))
        BY <2>1
      <3> HIDE DEF c0, c1, o, w
      <3> QED  BY <1>7, <2>1, <2>2, <2>3, <3>1, PutKeeps
    <2>5. Holds(c2, size, at, cells)
      <3> DEFINE o == 12  w == 4
      <3>1. o \in Nat /\ w \in Nat /\ o + w <= at /\ c2 = Put(c1, o, CellsOf(partition, w))
        BY <2>1
      <3> HIDE DEF c1, c2, o, w
      <3> QED  BY <1>8, <2>1, <2>4, <2>3, <3>1, PutKeeps
    <2>6. Holds(c3, size, at, cells)
      <3> DEFINE o == 4  w == 8
      <3>1. o \in Nat /\ w \in Nat /\ o + w <= at /\ c3 = Put(c2, o, CellsOf(correlation, w))
        BY <2>1
      <3> HIDE DEF c2, c3, o, w
      <3> QED  BY <1>8, <2>1, <2>5, <2>3, <3>1, PutKeeps
    <2> HIDE DEF c3
    <2>7. DecodeFixed(kind, c3, at) = v
      BY <2>1, <2>6, FixedReads DEF cells
    <2> QED  BY <2>7 DEF kind, at, v
  \* what is read
  <1>14. DecodeFields(fixed, c3) = [k \in DOMAIN fixed |-> values[k]]
    <2>1. ASSUME NEW k \in DOMAIN fixed
          PROVE  DecodeField(fixed[k], c3) = values[k]
      <3> HIDE DEF c3
      <3>1. fixed[k].guard = "always" /\ values[k] = Atom(values[k].a)
        BY DEF FieldsGiven
      <3>2. DecodeField(fixed[k], c3) = Atom(DecodeFixed(fixed[k].type, c3, fixed[k].offset))
        BY <3>1 DEF DecodeField
      <3> QED  BY <1>13, <3>1, <3>2
    <2> HIDE DEF c3
    <2> QED  BY <2>1 DEF DecodeFields
  <1>15. Get(c3, 0, 4) = type /\ Get(c3, 12, 4) = partition /\ Get(c3, 4, 8) = correlation
    <2> HIDE DEF c3
    <2>1. ASSUME NEW o \in Nat, NEW w \in Nat \ {0}, NEW v, Holds(c3, size, o, CellsOf(v, w))
          PROVE  Get(c3, o, w) = v
      <3> DEFINE cells == CellsOf(v, w)
      <3>1. Len(cells) = w /\ \A i \in 1..w : cells[i] = Cell(v, i - 1)
        BY CellsOfIs
      <3> HIDE DEF cells
      <3>2. Len(c3) = size /\ o + w <= size /\ \A i \in 1..w : c3[o + i] = Cell(v, i - 1)
        BY <2>1, <3>1 DEF Holds, cells
      <3> QED  BY <3>2, GetReads
    <2>2. 0 \in Nat /\ 12 \in Nat /\ 4 \in Nat /\ 4 \in Nat \ {0} /\ 8 \in Nat \ {0}
      OBVIOUS
    <2> QED  BY <1>12, <2>1, <2>2, Zenon
  <1>16. MessageType(frames) = type /\ CorrelationID(frames) = correlation /\ PartitionID(frames) = partition
    <2> HIDE DEF frames, c3
    <2> QED  BY <1>6, <1>15, WidthIs DEF MessageType, CorrelationID, PartitionID, TypeFieldOffset,
               CorrelationIDFieldOffset, PartitionIDOffset
  <1>17. \A k \in 1..n : IsFinalFrame(frames[k]) <=> k = n
    <2>1. ASSUME NEW k \in 1..n, k # n PROVE ~("IsFinal" \in whole[k].flags)
      <3>1. CASE k = 1
        <4> HIDE DEF whole, c2
        <4>1. whole[1].flags = UnfragmentedMessage
          BY <1>2 DEF NewFrameWith
        <4> QED  BY <3>1, <4>1 DEF UnfragmentedMessage
      <3>2. CASE k # 1
        <4>1. k - 1 \in 1..Len(rest) /\ (k - 1) + 1 = k
          BY <3>2
        <4> HIDE DEF whole, n
        <4> QED  BY <1>2, <4>1 DEF IsFinalFrame
      <3> QED  BY <3>1, <3>2
    <2> HIDE DEF whole, n, set, frames
    <2> QED  BY <1>4, <1>5, <2>1 DEF IsFinalFrame
  <1>18. \A k \in 1..Len(rest) : frames[k + 1].content = rest[k].content
    <2> TAKE k \in 1..Len(rest)
    <2>1. k + 1 \in 1..n /\ k + 1 \in 2..n
      OBVIOUS
    <2> HIDE DEF whole, n, set, frames
    <2>2. whole[k + 1] = rest[k]
      BY <1>2
    <2>3. set[k + 1] = whole[k + 1]
      BY <1>4, <2>1
    <2>4. frames[k + 1].content = set[k + 1].content
      BY <1>5, <2>1
    <2> QED  BY <2>2, <2>3, <2>4
  <1> HIDE DEF frames
  <1> QED  BY <1>6, <1>14, <1>16, <1>17, <1>18 DEF frames

=============================================================================
