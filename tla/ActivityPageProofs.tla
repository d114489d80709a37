------------------------- MODULE ActivityPageProofs -------------------------
(***************************************************************************)
(* Theorems about ActivityPage, for any rows, page size, requests and      *)
(* bounds.  The query is shown to return its rows sorted; the invariants   *)
(* relate what a request was answered with to the cursor it was asked      *)
(* with, and what is shown to the cursor that the next request will have.  *)
(***************************************************************************)
EXTENDS ActivityPage, FiniteSetTheorems, TLAPS

Cursor == [milli: Nat, id: Nat]

\* Rows have a time, and only rows are pushed.
RowsFit ==
    /\ IsFiniteSet(feed)
    /\ feed \subseteq Items
    /\ pushed \subseteq feed
    /\ created \in [Items -> Nat \cup {Nothing}]
    /\ \A x \in feed : created[x] \in Nat

Sockets == [joined: BOOLEAN, once: BOOLEAN, before: BOOLEAN]
SocketFits == socket \in Sockets

\* A request without a cursor is one that replaces the page.
LoadsFit ==
    /\ DOMAIN load = Loads
    /\ \A l \in Loads :
          \/ load[l] = IdleLoad
          \/ /\ load[l].pc \in {"asked", "answered"}
             /\ load[l].append \in BOOLEAN
             /\ load[l].append <=> load[l].cursor # Nothing
             /\ load[l].cursor # Nothing => load[l].cursor \in Cursor

\* The items are some of the rows of base beyond the cursor, each once and
\* none after its successor; those left out come after the last one.
Fulfils(result, cursor, base) ==
    /\ result.items \in Seq(base)
    /\ IsInjective(result.items)
    /\ \A x \in Range(result.items) : cursor = Nothing \/ Beyond(x, cursor)
    /\ \A x \in base : cursor = Nothing \/ Beyond(x, cursor) =>
          \/ x \in Range(result.items)
          \/ result.next # Nothing /\ Newer(Last(result.items), x)
    /\ result.next # Nothing =>
          /\ result.items # <<>>
          /\ result.next = encodeCursor(Last(result.items))
          /\ \A x \in Range(result.items) :
                x = Last(result.items) \/ Newer(x, Last(result.items))

\* Rows may have been committed since, but what was answered stays right.
AnswersFit ==
    \A l \in Loads : load[l].pc = "answered" =>
        /\ load[l].base \subseteq feed
        /\ Fulfils(load[l].result, load[l].cursor, load[l].base)

\* What WalkIsComplete says of a page, and what makes it so: the next page can
\* repeat nothing that is shown, and leave out only rows of the millisecond in
\* which this one ends.
Walked(p) ==
    /\ p.base \subseteq feed /\ p.ends \subseteq feed
    /\ p.items \in Seq(feed)
    /\ IsInjective(p.items)
    /\ p.next # Nothing =>
          /\ p.items # <<>>
          /\ p.next = encodeCursor(Last(p.items))
          /\ Last(p.items) \in p.ends
          /\ \A x \in Range(p.items) : ~Beyond(x, p.next)
    /\ \A x \in p.base :
          \/ x \in Range(p.items)
          \/ p.next # Nothing /\ Newer(Last(p.items), x)
          \/ \E y \in p.ends : encodeCursor(x).milli = encodeCursor(y).milli

PageFits ==
    /\ page.next # Nothing => page.next \in Cursor
    /\ page.walk => Walked(page)

IInv ==
    /\ RowsFit
    /\ SocketFits
    /\ LoadsFit
    /\ AnswersFit
    /\ PageFits

-----------------------------------------------------------------------------
(* ORDER BY *)

\* Sets of rows that the query can sort.
Sortable(S) == IsFiniteSet(S) /\ S \subseteq Nat /\ \A x \in S : created[x] \in Nat

\* The order is total.
LEMMA NewerOrder ==
    ASSUME NEW S, Sortable(S)
    PROVE  /\ \A x \in S : ~Newer(x, x)
           /\ \A x, y \in S : x # y => Newer(x, y) \/ Newer(y, x)
           /\ \A x, y, z \in S : Newer(x, y) /\ Newer(y, z) => Newer(x, z)
<1>1. \A x \in S : x \in Nat /\ created[x] \in Nat BY DEF Sortable
<1> QED BY <1>1 DEF Newer

LEMMA PositionType ==
    ASSUME NEW S, Sortable(S), NEW x \in S
    PROVE  Position(x, S) \in 1..Cardinality(S)
<1> DEFINE before == {y \in S : Newer(y, x)}
<1>1. x \notin before BY NewerOrder
<1>2. IsFiniteSet(S \ {x}) /\ Cardinality(S \ {x}) = Cardinality(S) - 1
  BY FS_RemoveElement DEF Sortable
<1>3. before \in SUBSET (S \ {x}) BY <1>1
<1>4. IsFiniteSet(before) /\ Cardinality(before) <= Cardinality(S \ {x})
  BY <1>2, <1>3, FS_Subset
<1>5. Cardinality(before) \in Nat /\ Cardinality(S) \in Nat
  BY <1>4, FS_CardinalityType DEF Sortable
<1>6. Position(x, S) = 1 + Cardinality(before) BY DEF Position
<1> HIDE DEF before
<1> QED BY <1>2, <1>4, <1>5, <1>6

LEMMA PositionOrder ==
    ASSUME NEW S, Sortable(S), NEW x \in S, NEW y \in S, Newer(x, y)
    PROVE  Position(x, S) < Position(y, S)
<1> DEFINE before(z) == {v \in S : Newer(v, z)}
<1>1. \A z \in S : IsFiniteSet(before(z)) /\ Cardinality(before(z)) \in Nat
  <2> SUFFICES ASSUME NEW z \in S PROVE IsFiniteSet(before(z)) /\ Cardinality(before(z)) \in Nat
    OBVIOUS
  <2>1. IsFiniteSet(before(z)) BY FS_Subset DEF Sortable
  <2> QED BY <2>1, FS_CardinalityType
<1>2. x \notin before(x) BY NewerOrder
<1>3. before(x) \cup {x} \in SUBSET before(y) BY NewerOrder
<1>4. Cardinality(before(x) \cup {x}) = Cardinality(before(x)) + 1
  BY <1>1, <1>2, FS_AddElement
<1>5. Cardinality(before(x) \cup {x}) <= Cardinality(before(y))
  BY <1>1, <1>3, FS_Subset
<1>6. Position(x, S) = 1 + Cardinality(before(x)) /\ Position(y, S) = 1 + Cardinality(before(y))
  BY DEF Position
<1> HIDE DEF before
<1> QED BY <1>1, <1>4, <1>5, <1>6

\* Every position is taken by one row: they are as many as the rows.
LEMMA PositionsTaken ==
    ASSUME NEW S, Sortable(S)
    PROVE  /\ \A x, y \in S : Position(x, S) = Position(y, S) => x = y
           /\ \A i \in 1..Cardinality(S) : \E x \in S : Position(x, S) = i
<1> DEFINE n == Cardinality(S)
           f == [x \in S |-> Position(x, S)]
<1>1. n \in Nat BY FS_CardinalityType DEF Sortable
<1>2. IsFiniteSet(1..n) /\ Cardinality(1..n) = n BY <1>1, FS_Interval
<1>3. \A x \in S : Position(x, S) \in 1..n BY PositionType
<1>4. ASSUME NEW x \in S, NEW y \in S, x # y PROVE Position(x, S) # Position(y, S)
  <2>1. Newer(x, y) \/ Newer(y, x) BY <1>4, NewerOrder
  <2>2. Position(x, S) \in Int /\ Position(y, S) \in Int BY <1>3
  <2> QED BY <2>1, <2>2, PositionOrder
<1> HIDE DEF n
<1>5. f \in [S -> 1..n] BY <1>3
<1>6. f \in Injection(S, 1..n) BY <1>4, <1>5 DEF Injection, IsInjective
<1> HIDE DEF f
<1>7. f \in Surjection(S, 1..n)
  <2>1. Cardinality(S) = Cardinality(1..n) BY <1>2 DEF n
  <2> QED BY <1>2, <1>6, <2>1, FS_Injection
<1>8. \A i \in 1..n : \E x \in S : f[x] = i BY <1>7 DEF Surjection
<1> QED BY <1>4, <1>8 DEF f, n

\* The rows come out sorted: every one, once, the newer ones first.
LEMMA SortedFacts ==
    ASSUME NEW S, Sortable(S)
    PROVE  /\ Cardinality(S) \in Nat
           /\ Sorted(S) \in [1..Cardinality(S) -> S]
           /\ \A i \in 1..Cardinality(S) : Position(Sorted(S)[i], S) = i
           /\ \A x \in S : Sorted(S)[Position(x, S)] = x
           /\ \A i, j \in 1..Cardinality(S) : i < j => Newer(Sorted(S)[i], Sorted(S)[j])
<1> DEFINE n == Cardinality(S)
           s == Sorted(S)
<1>1. n \in Nat BY FS_CardinalityType DEF Sortable
<1>2. ASSUME NEW i \in 1..n PROVE s[i] \in S /\ Position(s[i], S) = i
  <2>1. s[i] = CHOOSE x \in S : Position(x, S) = i BY DEF Sorted
  <2>2. \E x \in S : Position(x, S) = i BY PositionsTaken
  <2> QED BY <2>1, <2>2
<1>3. s = [i \in 1..n |-> s[i]] BY DEF Sorted
<1>4. s \in [1..n -> S] BY <1>2, <1>3
<1>5. ASSUME NEW x \in S PROVE s[Position(x, S)] = x
  <2>1. Position(x, S) \in 1..n BY PositionType
  <2>2. s[Position(x, S)] \in S /\ Position(s[Position(x, S)], S) = Position(x, S)
    BY <1>2, <2>1
  <2> QED BY <2>2, PositionsTaken
<1>6. ASSUME NEW i \in 1..n, NEW j \in 1..n, i < j PROVE Newer(s[i], s[j])
  <2>1. s[i] \in S /\ s[j] \in S /\ Position(s[i], S) = i /\ Position(s[j], S) = j BY <1>2
  <2>2. s[i] # s[j] BY <1>6, <2>1
  <2>3. Newer(s[i], s[j]) \/ Newer(s[j], s[i]) BY <2>1, <2>2, NewerOrder
  <2>4. ASSUME Newer(s[j], s[i]) PROVE j < i BY <2>1, <2>4, PositionOrder
  <2> QED BY <1>6, <2>3, <2>4
<1> QED BY <1>1, <1>2, <1>4, <1>5, <1>6

-----------------------------------------------------------------------------
(* The query *)

\* What listForUser returns: the first rows beyond the cursor, in order.
LEMMA QueryFulfils ==
    ASSUME RowsFit, NEW cursor
    PROVE  /\ Fulfils(listForUser(cursor), cursor, feed)
           /\ listForUser(cursor).next # Nothing => listForUser(cursor).next \in Cursor
<1> DEFINE S == Rows(cursor)
           n == Cardinality(S)
           s == Sorted(S)
           r == listForUser(cursor)
<1>1. S \subseteq feed /\ \A x \in feed : x \in S <=> cursor = Nothing \/ Beyond(x, cursor)
  BY DEF Rows
<1>2. Sortable(S)
  <2>1. IsFiniteSet(S) BY <1>1, FS_Subset DEF RowsFit
  <2> QED BY <1>1, <2>1, ActivityAssumption DEF Sortable, RowsFit
<1>3. /\ n \in Nat
      /\ s \in [1..n -> S]
      /\ \A i, j \in 1..n : i < j => Newer(s[i], s[j])
      /\ \A x \in S : s[Position(x, S)] = x
  BY <1>2, SortedFacts
<1>4. \A x \in S : Position(x, S) \in 1..n BY <1>2, PositionType
<1>5. \A x \in S : ~Newer(x, x) BY <1>2, NewerOrder
<1>6. r = [items |-> IF Len(s) > Limit THEN SubSeq(s, 1, Limit) ELSE s,
           next |-> IF Len(s) > Limit
                    THEN encodeCursor(Last(IF Len(s) > Limit THEN SubSeq(s, 1, Limit) ELSE s))
                    ELSE Nothing]
  BY DEF listForUser
<1> HIDE DEF S, n, s, r
<1>7. Len(s) = n /\ DOMAIN s = 1..n /\ s \in Seq(S) BY <1>3
<1>8. Limit \in Nat /\ Limit > 0 BY ActivityAssumption
<1>9. CASE n > Limit
  <2> DEFINE p == SubSeq(s, 1, Limit)
  <2>1. r.items = p /\ r.next = encodeCursor(Last(p)) BY <1>6, <1>7, <1>9
  <2>2. p \in Seq(S) /\ Len(p) = Limit /\ \A i \in 1..Limit : p[i] = s[i]
    BY <1>3, <1>7, <1>8, <1>9
  <2> HIDE DEF p
  <2>3. DOMAIN p = 1..Limit /\ p # <<>> BY <1>8, <2>2
  <2>4. Last(p) = s[Limit] /\ s[Limit] \in S
    BY <1>3, <1>8, <1>9, <2>2 DEF Last
  <2>5. \A i, j \in 1..Limit : i < j => Newer(p[i], p[j]) BY <1>3, <1>9, <2>2
  <2>6. \A i \in 1..Limit : p[i] \in S BY <1>3, <1>9, <2>2
  <2>7. IsInjective(p)
    <3> SUFFICES ASSUME NEW i \in 1..Limit, NEW j \in 1..Limit, p[i] = p[j] PROVE i = j
      BY <2>3 DEF IsInjective
    <3>1. ~(i < j) /\ ~(j < i) BY <1>5, <2>5, <2>6
    <3> QED BY <1>8, <3>1
  <2>8. Range(p) = {s[i] : i \in 1..Limit} BY <2>2, <2>3 DEF Range
  <2>9. \A x \in Range(p) : x = s[Limit] \/ Newer(x, s[Limit])
    BY <1>3, <1>8, <1>9, <2>8
  <2>10. ASSUME NEW x \in S PROVE x \in Range(p) \/ Newer(s[Limit], x)
    <3>1. Position(x, S) \in 1..n /\ s[Position(x, S)] = x BY <1>3, <1>4
    <3>2. CASE Position(x, S) <= Limit BY <2>8, <3>1, <3>2
    <3>3. CASE Position(x, S) > Limit BY <1>3, <1>8, <1>9, <3>1, <3>3
    <3> QED BY <1>8, <3>1, <3>2, <3>3
  <2>11. encodeCursor(Last(p)) \in Cursor
    <3>1. s[Limit] \in Nat /\ created[s[Limit]] \in Nat BY <1>2, <2>4 DEF Sortable
    <3>2. created[s[Limit]] \div TicksPerMilli \in Nat BY <3>1, ActivityAssumption
    <3> QED BY <2>4, <3>1, <3>2 DEF encodeCursor, Cursor
  <2>12. r.next # Nothing BY <2>1, <2>11, ActivityAssumption DEF Cursor
  <2>13. r.items \in Seq(feed) BY <1>1, <2>1, <2>2
  <2>14. Range(p) \subseteq S BY <2>6, <2>8, <2>2
  <2>15. \A x \in Range(p) : cursor = Nothing \/ Beyond(x, cursor) BY <1>1, <2>14
  <2>16. \A x \in feed : cursor = Nothing \/ Beyond(x, cursor) =>
            x \in Range(p) \/ Newer(Last(p), x)
    BY <1>1, <2>4, <2>10
  <2> QED
    BY <2>1, <2>3, <2>4, <2>7, <2>9, <2>11, <2>12, <2>13, <2>15, <2>16 DEF Fulfils, r
<1>10. CASE ~(n > Limit)
  <2>1. r.items = s /\ r.next = Nothing BY <1>6, <1>7, <1>10
  <2>2. IsInjective(s)
    <3> SUFFICES ASSUME NEW i \in 1..n, NEW j \in 1..n, s[i] = s[j] PROVE i = j
      BY <1>7 DEF IsInjective
    <3>1. ~(i < j) /\ ~(j < i) BY <1>3, <1>5
    <3> QED BY <1>3, <3>1
  <2>3. Range(s) = S BY <1>3, <1>4, <1>7 DEF Range
  <2>4. s \in Seq(feed) BY <1>1, <1>7
  <2> QED BY <1>1, <2>1, <2>2, <2>3, <2>4 DEF Fulfils, r
<1> QED BY <1>3, <1>8, <1>9, <1>10

\* The rows of the first page are those with fewer than Limit newer ones.
FirstPageFits ==
    \A x : x \in Range(listForUser(Nothing).items) <=> x \in feed /\ Position(x, feed) <= Limit

LEMMA FirstPageHere == RowsFit => FirstPageFits
<1> SUFFICES ASSUME RowsFit PROVE FirstPageFits OBVIOUS
<1> DEFINE n == Cardinality(feed)
           s == Sorted(feed)
           items == listForUser(Nothing).items
<1>1. Rows(Nothing) = feed BY DEF Rows
<1>2. Sortable(feed) BY ActivityAssumption DEF Sortable, RowsFit
<1>3. /\ n \in Nat
      /\ s \in [1..n -> feed]
      /\ \A i \in 1..n : Position(s[i], feed) = i
      /\ \A x \in feed : s[Position(x, feed)] = x
  BY <1>2, SortedFacts
<1>4. \A x \in feed : Position(x, feed) \in 1..n BY <1>2, PositionType
<1>5. items = IF Len(s) > Limit THEN SubSeq(s, 1, Limit) ELSE s
  BY <1>1 DEF listForUser
<1> HIDE DEF n, s, items
<1>6. Limit \in Nat /\ Limit > 0 BY ActivityAssumption
<1>7. Len(s) = n /\ DOMAIN s = 1..n /\ s \in Seq(feed) BY <1>3
<1>8. PICK m \in Nat : m = IF n > Limit THEN Limit ELSE n BY <1>3, <1>6
<1>9. items \in Seq(feed) /\ Len(items) = m /\ \A i \in 1..m : items[i] = s[i]
  BY <1>3, <1>5, <1>6, <1>7, <1>8
<1>10. DOMAIN items = 1..m BY <1>9
<1>11. Range(items) = {s[i] : i \in 1..m} BY <1>9, <1>10 DEF Range
<1>12. \A x \in feed : Position(x, feed) <= Limit <=> Position(x, feed) \in 1..m
  BY <1>3, <1>4, <1>6, <1>8
<1>13. ASSUME NEW x \in Range(items) PROVE x \in feed /\ Position(x, feed) <= Limit
  <2>1. PICK i \in 1..m : x = s[i] BY <1>11, <1>13
  <2>2. i \in 1..n BY <1>3, <1>6, <1>8, <2>1
  <2>3. x \in feed /\ Position(x, feed) = i BY <1>3, <2>1, <2>2
  <2> QED BY <1>12, <2>1, <2>3
<1>14. ASSUME NEW x \in feed, Position(x, feed) <= Limit PROVE x \in Range(items)
  BY <1>3, <1>11, <1>12, <1>14
<1> QED BY <1>13, <1>14 DEF FirstPageFits, items

LEMMA FirstPageNext == RowsFit' => FirstPageFits'
BY FirstPageHere, PTL

-----------------------------------------------------------------------------
(* Cursors *)

\* Two multiples of the same unit that are no unit below a number are the same.
LEMMA SameMilli ==
    ASSUME NEW t \in Nat, NEW T \in Nat, T > 0, NEW m \in Nat, m * T <= t, t < m * T + T
    PROVE  t \div T = m
<1> DEFINE q == t \div T
<1>1. q \in Nat OBVIOUS
<1>2. q * T <= t /\ t < q * T + T BY Z3
<1> HIDE DEF q
<1>3. ASSUME q < m PROVE FALSE
  <2>1. q + 1 <= m BY <1>1, <1>3
  <2>2. (q + 1) * T <= m * T BY <1>1, <2>1, Z3
  <2>3. (q + 1) * T = q * T + T BY <1>1, Z3
  <2> QED BY <1>1, <1>2, <2>2, <2>3
<1>4. ASSUME m < q PROVE FALSE
  <2>1. m + 1 <= q BY <1>1, <1>4
  <2>2. (m + 1) * T <= q * T BY <1>1, <2>1, Z3
  <2>3. (m + 1) * T = m * T + T BY Z3
  <2> QED BY <1>1, <1>2, <2>2, <2>3
<1> QED BY <1>1, <1>3, <1>4 DEF q

\* The time of a cursor is that of its row without the ticks of a millisecond.
LEMMA CursorTime ==
    ASSUME RowsFit, NEW y \in feed
    PROVE  /\ encodeCursor(y) \in Cursor
           /\ encodeCursor(y).id = y
           /\ encodeCursor(y).milli * TicksPerMilli \in Nat
           /\ encodeCursor(y).milli * TicksPerMilli <= created[y]
           /\ created[y] < encodeCursor(y).milli * TicksPerMilli + TicksPerMilli
<1>1. y \in Nat /\ created[y] \in Nat BY ActivityAssumption DEF RowsFit
<1>2. TicksPerMilli \in Nat /\ TicksPerMilli > 0 BY ActivityAssumption
<1>3. encodeCursor(y).milli = created[y] \div TicksPerMilli /\ encodeCursor(y).id = y
  BY DEF encodeCursor
<1>4. ASSUME NEW t \in Nat, NEW T \in Nat, T > 0
      PROVE  t \div T \in Nat /\ (t \div T) * T \in Nat
             /\ (t \div T) * T <= t /\ t < (t \div T) * T + T
  <2>1. t \div T \in Nat BY <1>4
  <2>2. (t \div T) * T <= t /\ t < (t \div T) * T + T BY <1>4, Z3
  <2> QED BY <1>4, <2>1, <2>2
<1>5. encodeCursor(y) \in Cursor BY <1>1, <1>2, <1>3, <1>4 DEF encodeCursor, Cursor
<1> QED BY <1>1, <1>2, <1>3, <1>4, <1>5

\* The rows that a page shows are not beyond its last one.
LEMMA ShownNotBeyond ==
    ASSUME RowsFit, NEW y \in feed, NEW x \in feed, x = y \/ Newer(x, y)
    PROVE  ~Beyond(x, encodeCursor(y))
<1>1. x \in Nat /\ y \in Nat /\ created[x] \in Nat /\ created[y] \in Nat
  BY ActivityAssumption DEF RowsFit
<1> DEFINE time == encodeCursor(y).milli * TicksPerMilli
<1>2. time \in Nat /\ time <= created[y] /\ encodeCursor(y).id = y BY CursorTime
<1>3. Beyond(x, encodeCursor(y)) <=>
        created[x] < time \/ (created[x] = time /\ x < encodeCursor(y).id)
  BY DEF Beyond
<1>4. created[x] >= created[y] /\ (created[x] = created[y] => x >= y) BY <1>1 DEF Newer
<1> HIDE DEF time
<1> QED BY <1>1, <1>2, <1>3, <1>4

\* What is older than the last row shown and still not beyond the cursor is of
\* the same millisecond.
LEMMA LostToCursor ==
    ASSUME RowsFit, NEW y \in feed, NEW x \in feed,
           Newer(y, x), ~Beyond(x, encodeCursor(y))
    PROVE  encodeCursor(x).milli = encodeCursor(y).milli
<1>1. x \in Nat /\ y \in Nat /\ created[x] \in Nat /\ created[y] \in Nat
  BY ActivityAssumption DEF RowsFit
<1> DEFINE m == encodeCursor(y).milli
           time == m * TicksPerMilli
<1>2. /\ time \in Nat /\ time <= created[y] /\ created[y] < time + TicksPerMilli
      /\ m \in Nat
  BY CursorTime DEF Cursor
<1>3. TicksPerMilli \in Nat /\ TicksPerMilli > 0 BY ActivityAssumption
<1>4. ~(created[x] < time) BY DEF Beyond
<1>5. created[x] <= created[y] BY <1>1 DEF Newer
<1>6. time <= created[x] /\ created[x] < time + TicksPerMilli
  <2> HIDE DEF time
  <2> QED BY <1>1, <1>2, <1>3, <1>4, <1>5
<1> HIDE DEF m
<1>7. created[x] \div TicksPerMilli = m BY <1>1, <1>2, <1>3, <1>6, SameMilli
<1> QED BY <1>7 DEF encodeCursor, m

\* A later cursor keeps out what an earlier one kept out.
LEMMA CursorAdvances ==
    ASSUME RowsFit, NEW c \in Cursor, NEW y \in feed, Beyond(y, c),
           NEW x \in feed, ~Beyond(x, c)
    PROVE  x # y /\ ~Beyond(x, encodeCursor(y))
<1>1. x \in Nat /\ y \in Nat /\ created[x] \in Nat /\ created[y] \in Nat
  BY ActivityAssumption DEF RowsFit
<1> DEFINE time == encodeCursor(y).milli * TicksPerMilli
           before == c.milli * TicksPerMilli
<1>2. time \in Nat /\ time <= created[y] /\ encodeCursor(y).id = y BY CursorTime
<1>3. c.milli \in Nat /\ c.id \in Nat /\ TicksPerMilli \in Nat
  BY ActivityAssumption DEF Cursor
<1>4. before \in Nat BY <1>3
<1>5. /\ Beyond(x, encodeCursor(y)) <=>
            created[x] < time \/ (created[x] = time /\ x < encodeCursor(y).id)
      /\ ~(created[x] < before \/ (created[x] = before /\ x < c.id))
      /\ created[y] < before \/ (created[y] = before /\ y < c.id)
  BY DEF Beyond
<1> HIDE DEF time, before
<1> QED BY <1>1, <1>2, <1>3, <1>4, <1>5

-----------------------------------------------------------------------------
(* Pages *)

\* A first page is the beginning of a walk.
LEMMA FirstPageWalked ==
    ASSUME RowsFit, NEW r, NEW b, b \subseteq feed, Fulfils(r, Nothing, b),
           NEW p, p.items = r.items, p.next = r.next, p.base = b,
           p.ends = IF r.next = Nothing THEN {} ELSE {Last(r.items)}
    PROVE  Walked(p)
<1>1. /\ r.items \in Seq(b)
      /\ IsInjective(r.items)
      /\ \A x \in b : x \in Range(r.items) \/ (r.next # Nothing /\ Newer(Last(r.items), x))
      /\ r.next # Nothing =>
            /\ r.items # <<>>
            /\ r.next = encodeCursor(Last(r.items))
            /\ \A x \in Range(r.items) : x = Last(r.items) \/ Newer(x, Last(r.items))
  BY DEF Fulfils
<1>2. r.items \in Seq(feed) BY <1>1
<1>3. Range(r.items) \subseteq feed BY <1>2 DEF Range
<1>4. r.next # Nothing => Last(r.items) \in feed BY <1>1, <1>2 DEF Last
<1>5. r.next # Nothing => \A x \in Range(r.items) : ~Beyond(x, r.next)
  BY <1>1, <1>3, <1>4, ShownNotBeyond
<1> QED BY <1>1, <1>2, <1>4, <1>5 DEF Walked

\* What is shown after a page is appended.
LEMMA ConcatFacts ==
    ASSUME NEW S, NEW s \in Seq(S), NEW t \in Seq(S)
    PROVE  /\ s \o t \in Seq(S)
           /\ Range(s \o t) = Range(s) \cup Range(t)
           /\ (/\ IsInjective(s) /\ IsInjective(t)
               /\ \A x \in Range(s), y \in Range(t) : x # y) => IsInjective(s \o t)
           /\ t # <<>> => s \o t # <<>> /\ Last(s \o t) = Last(t) /\ Last(t) \in Range(t)
<1> DEFINE u == s \o t
<1>1. PICK m \in Nat, n \in Nat : m = Len(s) /\ n = Len(t) OBVIOUS
<1>2. u \in Seq(S) /\ Len(u) = m + n BY <1>1
<1>3. \A i \in 1..m : u[i] = s[i] BY <1>1
<1>4. \A i \in 1..n : u[m + i] = t[i] BY <1>1
<1>5. DOMAIN s = 1..m /\ DOMAIN t = 1..n /\ DOMAIN u = 1..(m + n) BY <1>1, <1>2
<1> HIDE DEF u
<1>6. \A i \in 1..m : i \in 1..(m + n) OBVIOUS
<1>7. \A i \in 1..n : m + i \in 1..(m + n) OBVIOUS
<1>8. \A i \in 1..(m + n) : i \in 1..m \/ \E k \in 1..n : i = m + k
  <2> SUFFICES ASSUME NEW i \in 1..(m + n), i \notin 1..m PROVE \E k \in 1..n : i = m + k
    OBVIOUS
  <2>1. i - m \in 1..n /\ i = m + (i - m) OBVIOUS
  <2> QED BY <2>1
<1>9. /\ Range(s) = {s[i] : i \in 1..m} /\ Range(t) = {t[i] : i \in 1..n}
      /\ Range(u) = {u[i] : i \in 1..(m + n)}
  BY <1>5 DEF Range
<1>10. Range(u) = Range(s) \cup Range(t)
  <2>1. ASSUME NEW i \in 1..m PROVE s[i] \in Range(u) BY <1>3, <1>6, <1>9
  <2>2. ASSUME NEW i \in 1..n PROVE t[i] \in Range(u) BY <1>4, <1>7, <1>9
  <2>3. ASSUME NEW i \in 1..(m + n) PROVE u[i] \in Range(s) \cup Range(t)
    BY <1>3, <1>4, <1>8, <1>9
  <2> QED BY <1>9, <2>1, <2>2, <2>3
<1>11. ASSUME IsInjective(s), IsInjective(t), \A x \in Range(s), y \in Range(t) : x # y
       PROVE  IsInjective(u)
  <2> SUFFICES ASSUME NEW i \in 1..(m + n), NEW j \in 1..(m + n), u[i] = u[j] PROVE i = j
    BY <1>5 DEF IsInjective
  <2>1. CASE i \in 1..m /\ j \in 1..m BY <1>3, <1>5, <1>11, <2>1 DEF IsInjective
  <2>2. ASSUME NEW k \in 1..n, i = m + k, j \in 1..m PROVE FALSE
    BY <1>3, <1>4, <1>9, <1>11, <2>2
  <2>3. ASSUME NEW k \in 1..n, j = m + k, i \in 1..m PROVE FALSE
    BY <1>3, <1>4, <1>9, <1>11, <2>3
  <2>4. ASSUME NEW k \in 1..n, i = m + k, NEW l \in 1..n, j = m + l PROVE i = j
    <3>1. t[k] = t[l] BY <1>4, <2>4
    <3> QED BY <1>5, <1>11, <2>4, <3>1 DEF IsInjective
  <2> QED BY <1>8, <2>1, <2>2, <2>3, <2>4
<1>12. ASSUME t # <<>> PROVE u # <<>> /\ Last(u) = Last(t) /\ Last(t) \in Range(t)
  <2>1. n > 0 BY <1>1, <1>12
  <2>2. n \in 1..n BY <2>1
  <2>3. Last(u) = u[m + n] /\ Last(t) = t[n] BY <1>1, <1>2 DEF Last
  <2>4. u # <<>> BY <1>2, <2>1
  <2> QED BY <1>4, <1>9, <2>2, <2>3, <2>4
<1> QED BY <1>2, <1>10, <1>11, <1>12 DEF u

\* A page asked for with the cursor of the one before, and after it, continues
\* the walk.
LEMMA NextPageWalked ==
    ASSUME RowsFit, NEW p, Walked(p), p.next # Nothing,
           NEW r, NEW b, b \subseteq feed, p.base \subseteq b, Fulfils(r, p.next, b),
           NEW q, q.items = p.items \o r.items, q.next = r.next, q.base = p.base,
           q.ends = p.ends \cup (IF r.next = Nothing THEN {} ELSE {Last(r.items)})
    PROVE  Walked(q)
<1> DEFINE L == Last(p.items)
           M == Last(r.items)
<1>1. /\ p.base \subseteq feed /\ p.ends \subseteq feed
      /\ p.items \in Seq(feed) /\ IsInjective(p.items)
      /\ p.items # <<>> /\ p.next = encodeCursor(L) /\ L \in p.ends
      /\ \A x \in Range(p.items) : ~Beyond(x, p.next)
  BY DEF Walked
<1>2. \A x \in p.base : \/ x \in Range(p.items)
                        \/ Newer(L, x)
                        \/ \E y \in p.ends : encodeCursor(x).milli = encodeCursor(y).milli
  BY DEF Walked
<1>3. /\ r.items \in Seq(b)
      /\ IsInjective(r.items)
      /\ \A x \in Range(r.items) : Beyond(x, p.next)
      /\ \A x \in b : Beyond(x, p.next) =>
            x \in Range(r.items) \/ (r.next # Nothing /\ Newer(M, x))
      /\ r.next # Nothing =>
            /\ r.items # <<>>
            /\ r.next = encodeCursor(M)
            /\ \A x \in Range(r.items) : x = M \/ Newer(x, M)
  BY DEF Fulfils
<1>4. L \in feed /\ p.next \in Cursor BY <1>1, CursorTime
<1>5. r.items \in Seq(feed) BY <1>3
<1>6. Range(p.items) \subseteq feed /\ Range(r.items) \subseteq feed
  BY <1>1, <1>5 DEF Range
<1>7. \A x \in Range(p.items), y \in Range(r.items) : x # y BY <1>1, <1>3
<1>8. /\ q.items \in Seq(feed)
      /\ Range(q.items) = Range(p.items) \cup Range(r.items)
      /\ IsInjective(q.items)
      /\ r.items # <<>> => /\ q.items # <<>> /\ Last(q.items) = M
                           /\ M \in Range(r.items)
  BY <1>1, <1>3, <1>5, <1>7, ConcatFacts
<1>9. r.next # Nothing => /\ q.items # <<>> /\ Last(q.items) = M
                          /\ M \in Range(r.items) /\ M \in feed
  BY <1>3, <1>6, <1>8
<1>10. ASSUME r.next # Nothing, NEW x \in Range(q.items) PROVE ~Beyond(x, encodeCursor(M))
  <2>1. CASE x \in Range(r.items)
    BY <1>3, <1>6, <1>9, <1>10, <2>1, ShownNotBeyond
  <2>2. CASE x \in Range(p.items)
    BY <1>1, <1>3, <1>4, <1>6, <1>9, <1>10, <2>2, CursorAdvances
  <2> QED BY <1>8, <1>10, <2>1, <2>2
<1>11. ASSUME NEW x \in q.base
       PROVE  \/ x \in Range(q.items)
              \/ q.next # Nothing /\ Newer(Last(q.items), x)
              \/ \E y \in q.ends : encodeCursor(x).milli = encodeCursor(y).milli
  <2>1. x \in b /\ x \in feed /\ x \in p.base BY <1>1, <1>11
  <2>2. CASE Beyond(x, p.next) BY <1>3, <1>8, <1>9, <2>1, <2>2
  <2>3. CASE Newer(L, x) /\ ~Beyond(x, p.next)
    <3>1. encodeCursor(x).milli = encodeCursor(L).milli
      BY <1>1, <1>4, <2>1, <2>3, LostToCursor
    <3> QED BY <1>1, <3>1
  <2> QED BY <1>2, <1>8, <2>1, <2>2, <2>3
<1>12. q.base \subseteq feed /\ q.ends \subseteq feed BY <1>1, <1>9
<1>13. q.next # Nothing => /\ q.next = encodeCursor(Last(q.items))
                           /\ Last(q.items) \in q.ends /\ q.items # <<>>
                           /\ \A x \in Range(q.items) : ~Beyond(x, q.next)
  BY <1>3, <1>9, <1>10
<1> QED BY <1>8, <1>11, <1>12, <1>13 DEF Walked

-----------------------------------------------------------------------------
(* Steps *)

\* Rows are only added, and keep their times.
RowsStay == feed \subseteq feed' /\ \A x \in feed : created'[x] = created[x]

LEMMA RowsStep ==
    ASSUME RowsFit, [Next]_vars
    PROVE  RowsFit' /\ RowsStay
<1>1. ASSUME UNCHANGED <<created, feed>>, pushed' \subseteq feed PROVE RowsFit' /\ RowsStay
  BY <1>1 DEF RowsFit, RowsStay
<1>2. ASSUME NEW x \in Items, Record(x) PROVE RowsFit' /\ RowsStay
  <2>1. PICK t \in 0..MaxTime : created' = [created EXCEPT ![x] = t]
    BY <1>2 DEF Record
  <2>2. feed' = feed \cup {x} /\ x \notin feed /\ pushed' = pushed BY <1>2 DEF Record
  <2>3. t \in Nat BY ActivityAssumption
  <2>4. IsFiniteSet(feed') BY <2>2, FS_AddElement DEF RowsFit
  <2>5. created' \in [Items -> Nat \cup {Nothing}] BY <2>1, <2>3 DEF RowsFit
  <2>6. \A y \in feed' : created'[y] \in Nat BY <2>1, <2>2, <2>3 DEF RowsFit
  <2>7. \A y \in feed : created'[y] = created[y] BY <2>1, <2>2 DEF RowsFit
  <2> QED BY <2>2, <2>4, <2>5, <2>6, <2>7 DEF RowsFit, RowsStay
<1>3. ASSUME NEW x \in Items, emitToUser(x) \/ PushLost(x) PROVE RowsFit' /\ RowsStay
  <2>1. UNCHANGED <<created, feed>> /\ pushed' = pushed \cup {x} /\ x \in feed
    BY <1>3 DEF emitToUser, PushLost
  <2> QED BY <1>1, <2>1 DEF RowsFit
<1>4. CASE Connect \/ Disconnect \/ Refresh \/ LoadMore
  <2>1. UNCHANGED <<created, feed, pushed>> BY <1>4 DEF Connect, Disconnect, Refresh, LoadMore
  <2> QED BY <1>1, <2>1 DEF RowsFit
<1>5. ASSUME NEW l \in Loads, Answer(l) \/ Arrive(l) \/ LoadFails(l) PROVE RowsFit' /\ RowsStay
  <2>1. UNCHANGED <<created, feed, pushed>> BY <1>5 DEF Answer, Arrive, LoadFails
  <2> QED BY <1>1, <2>1 DEF RowsFit
<1>6. CASE UNCHANGED vars BY <1>1, <1>6 DEF vars, RowsFit
<1> QED BY <1>2, <1>3, <1>4, <1>5, <1>6 DEF Next

LEMMA SocketStep == ASSUME SocketFits, [Next]_vars PROVE SocketFits'
<1>0. /\ socket.joined \in BOOLEAN /\ socket.once \in BOOLEAN /\ socket.before \in BOOLEAN
      /\ socket = [joined |-> socket.joined, once |-> socket.once, before |-> socket.before]
  BY Zenon DEF SocketFits, Sockets
<1>1. [socket EXCEPT !.joined = TRUE, !.once = TRUE] \in Sockets
  BY Zenon DEF SocketFits, Sockets
<1>2. NewSocket(socket.before \/ socket.once) \in Sockets
  <2>1. (socket.before \/ socket.once) \in BOOLEAN BY <1>0, Zenon
  <2> QED BY <2>1, Zenon DEF NewSocket, Sockets
<1>3. [socket EXCEPT !.joined = FALSE] \in Sockets
  BY Zenon DEF SocketFits, Sockets
<1>4. CASE Connect BY <1>1, <1>4, Zenon DEF Connect, SocketFits
<1>5. CASE Disconnect BY <1>3, <1>5, Zenon DEF Disconnect, SocketFits
<1>6. ASSUME NEW l \in Loads, Arrive(l) \/ LoadFails(l) PROVE SocketFits'
  BY <1>2, <1>6, Zenon DEF Arrive, Rerender, LoadFails, SocketFits
<1>7. CASE \/ \E x \in Items : Record(x) \/ emitToUser(x) \/ PushLost(x)
           \/ Refresh \/ LoadMore \/ UNCHANGED vars
           \/ \E l \in Loads : Answer(l)
  BY <1>7 DEF Record, emitToUser, PushLost, Refresh, LoadMore, Answer, vars, SocketFits
<1> QED BY <1>4, <1>5, <1>6, <1>7 DEF Next

\* What was answered, and what is shown, stays right when rows are added.
LEMMA FulfilsStays ==
    ASSUME RowsFit, RowsStay, NEW r, NEW c, NEW b, b \subseteq feed, Fulfils(r, c, b)
    PROVE  Fulfils(r, c, b)'
<1>1. /\ r.items \in Seq(b) /\ IsInjective(r.items)
      /\ \A x \in Range(r.items) : c = Nothing \/ Beyond(x, c)
      /\ \A x \in b : c = Nothing \/ Beyond(x, c) =>
            x \in Range(r.items) \/ (r.next # Nothing /\ Newer(Last(r.items), x))
      /\ r.next # Nothing =>
            /\ r.items # <<>>
            /\ r.next = encodeCursor(Last(r.items))
            /\ \A x \in Range(r.items) : x = Last(r.items) \/ Newer(x, Last(r.items))
  BY DEF Fulfils
<1>2. Range(r.items) \subseteq feed BY <1>1 DEF Range
<1>3. r.next # Nothing => Last(r.items) \in feed BY <1>1 DEF Last
<1>4. \A x \in feed : (Beyond(x, c) <=> Beyond(x, c)') /\ encodeCursor(x)' = encodeCursor(x)
  BY DEF RowsStay, Beyond, encodeCursor
<1>5. \A x, y \in feed : Newer(x, y) <=> Newer(x, y)' BY DEF RowsStay, Newer
<1> QED BY <1>1, <1>2, <1>3, <1>4, <1>5 DEF Fulfils

LEMMA WalkedStays ==
    ASSUME RowsFit, RowsStay, NEW p, Walked(p)
    PROVE  Walked(p)'
<1>1. /\ p.base \subseteq feed /\ p.ends \subseteq feed
      /\ p.items \in Seq(feed) /\ IsInjective(p.items)
      /\ p.next # Nothing => /\ p.items # <<>>
                             /\ p.next = encodeCursor(Last(p.items))
                             /\ Last(p.items) \in p.ends
                             /\ \A x \in Range(p.items) : ~Beyond(x, p.next)
      /\ \A x \in p.base :
            \/ x \in Range(p.items)
            \/ p.next # Nothing /\ Newer(Last(p.items), x)
            \/ \E y \in p.ends : encodeCursor(x).milli = encodeCursor(y).milli
  BY DEF Walked
<1>2. Range(p.items) \subseteq feed BY <1>1 DEF Range
<1>3. p.next # Nothing => Last(p.items) \in feed BY <1>1
<1>4. \A x \in feed : /\ Beyond(x, p.next) <=> Beyond(x, p.next)'
                      /\ encodeCursor(x)' = encodeCursor(x)
  BY DEF RowsStay, Beyond, encodeCursor
<1>5. \A x, y \in feed : Newer(x, y) <=> Newer(x, y)' BY DEF RowsStay, Newer
<1>6. p.base \subseteq feed' /\ p.ends \subseteq feed' /\ p.items \in Seq(feed')
  BY <1>1 DEF RowsStay
<1> QED BY <1>1, <1>2, <1>3, <1>4, <1>5, <1>6 DEF Walked

\* What a step does to the requests.
Asking(l, c) ==
    /\ load[l].pc = "idle"
    /\ c # Nothing => c \in Cursor
    /\ load' = [load EXCEPT ![l] = [pc |-> "asked", cursor |-> c, append |-> (c # Nothing)]]

LEMMA LoadCases ==
    ASSUME PageFits, [Next]_vars
    PROVE  \/ UNCHANGED load
           \/ \E l \in Loads, c \in Cursor \cup {Nothing} : Asking(l, c)
           \/ \E l \in Loads : Answer(l)
           \/ \E l \in Loads : load' = [load EXCEPT ![l] = IdleLoad]
<1>1. ASSUME Fetch(Nothing, FALSE)
      PROVE  \E l \in Loads, c \in Cursor \cup {Nothing} : Asking(l, c)
  <2>1. FALSE = (Nothing # Nothing) OBVIOUS
  <2> QED BY <1>1, <2>1 DEF Fetch, Asking
<1>2. ASSUME LoadMore PROVE \E l \in Loads, c \in Cursor \cup {Nothing} : Asking(l, c)
  <2>1. PICK c \in Cursor \cup {Nothing} : c = page.next BY DEF PageFits
  <2>2. c # Nothing /\ c \in Cursor /\ Fetch(c, TRUE) BY <1>2, <2>1 DEF LoadMore
  <2>3. TRUE = (c # Nothing) BY <2>2
  <2> QED BY <2>2, <2>3 DEF Fetch, Asking
<1>3. ASSUME NEW x \in Items, Record(x) \/ emitToUser(x) \/ PushLost(x)
      PROVE  UNCHANGED load \/ Fetch(Nothing, FALSE)
  BY <1>3 DEF Record, emitToUser, PushLost
<1>4. CASE Connect \/ Disconnect \/ Refresh \/ UNCHANGED vars
  <2>1. UNCHANGED load \/ Fetch(Nothing, FALSE) BY <1>4 DEF Connect, Disconnect, Refresh, vars
  <2> QED BY <1>1, <2>1
<1>5. ASSUME NEW l \in Loads, Arrive(l) \/ LoadFails(l)
      PROVE  load' = [load EXCEPT ![l] = IdleLoad]
  BY <1>5 DEF Arrive, LoadFails
<1> QED BY <1>1, <1>2, <1>3, <1>4, <1>5 DEF Next

\* A request keeps its kind and its cursor until it is over.
LEMMA LoadsStep == ASSUME RowsFit, LoadsFit, PageFits, [Next]_vars PROVE LoadsFit'
<1> DEFINE OK(v) == \/ v = IdleLoad
                    \/ /\ v.pc \in {"asked", "answered"}
                       /\ v.append \in BOOLEAN
                       /\ v.append <=> v.cursor # Nothing
                       /\ v.cursor # Nothing => v.cursor \in Cursor
<1>1. DOMAIN load = Loads /\ \A l \in Loads : OK(load[l]) BY DEF LoadsFit
<1>2. ASSUME NEW l \in Loads, NEW v, OK(v), load' = [load EXCEPT ![l] = v] PROVE LoadsFit'
  <2>1. DOMAIN load' = Loads BY <1>1, <1>2
  <2>2. load'[l] = v /\ \A k \in Loads \ {l} : load'[k] = load[k] BY <1>1, <1>2
  <2>3. \A k \in Loads : OK(load'[k]) BY <1>1, <1>2, <2>2
  <2> QED BY <2>1, <2>3 DEF LoadsFit
<1>3. ASSUME NEW l \in Loads, NEW c \in Cursor \cup {Nothing}, Asking(l, c) PROVE LoadsFit'
  <2> DEFINE v == [pc |-> "asked", cursor |-> c, append |-> (c # Nothing)]
  <2>1. v.pc = "asked" /\ v.cursor = c BY Zenon
  <2>2. v.append = (c # Nothing) BY Zenon
  <2>3. OK(v) BY <1>3, <2>1, <2>2, Zenon
  <2>4. load' = [load EXCEPT ![l] = v] BY <1>3 DEF Asking
  <2> HIDE DEF v, OK
  <2> QED BY <1>2, <2>3, <2>4
<1>4. ASSUME NEW l \in Loads, Answer(l) PROVE LoadsFit'
  <2> DEFINE v == [pc |-> "answered", cursor |-> load[l].cursor, append |-> load[l].append,
                   result |-> listForUser(load[l].cursor), base |-> feed]
  <2>1. load' = [load EXCEPT ![l] = v] /\ load[l].pc = "asked" BY <1>4 DEF Answer
  <2>2. load[l] # IdleLoad BY <2>1 DEF IdleLoad
  <2>3. v.pc = "answered" /\ v.cursor = load[l].cursor /\ v.append = load[l].append OBVIOUS
  <2> HIDE DEF v
  <2>4. OK(v) BY <1>1, <2>2, <2>3
  <2> HIDE DEF OK
  <2>5. PICK u : u = v OBVIOUS
  <2> QED BY <1>2, <2>1, <2>4, <2>5
<1>5. ASSUME NEW l \in Loads, load' = [load EXCEPT ![l] = IdleLoad] PROVE LoadsFit'
  BY <1>2, <1>5
<1>6. CASE UNCHANGED load BY <1>6 DEF LoadsFit
<1> QED BY <1>3, <1>4, <1>5, <1>6, LoadCases

\* The answer is right when it is computed, and stays so.
LEMMA AnswersStep ==
    ASSUME RowsFit, RowsFit', RowsStay, LoadsFit, AnswersFit, PageFits, [Next]_vars
    PROVE  AnswersFit'
<1> DEFINE Good(l) == /\ load[l].base \subseteq feed
                      /\ Fulfils(load[l].result, load[l].cursor, load[l].base)
<1>1. ASSUME NEW l \in Loads, load[l].pc = "answered", load'[l] = load[l] PROVE Good(l)'
  <2>1. PICK r, c, b : r = load[l].result /\ c = load[l].cursor /\ b = load[l].base OBVIOUS
  <2>2. b \subseteq feed /\ Fulfils(r, c, b) BY <1>1, <2>1 DEF AnswersFit
  <2>3. Fulfils(r, c, b)' BY <2>2, FulfilsStays
  <2>4. b \subseteq feed' BY <2>2 DEF RowsStay
  <2>5. r = load'[l].result /\ c = load'[l].cursor /\ b = load'[l].base BY <1>1, <2>1
  <2> QED BY <2>3, <2>4, <2>5
<1>2. ASSUME NEW l \in Loads, load'[l].pc # "answered",
             \A k \in Loads \ {l} : load'[k] = load[k]
      PROVE  AnswersFit'
  BY <1>1, <1>2 DEF AnswersFit
<1>3. ASSUME NEW l \in Loads, NEW c \in Cursor \cup {Nothing}, Asking(l, c) PROVE AnswersFit'
  <2>1. load'[l].pc = "asked" /\ \A k \in Loads \ {l} : load'[k] = load[k]
    BY <1>3 DEF Asking, LoadsFit
  <2> QED BY <1>2, <2>1
<1>4. ASSUME NEW l \in Loads, Answer(l) PROVE AnswersFit'
  <2>1. PICK r, c, b : r = listForUser(load[l].cursor) /\ c = load[l].cursor /\ b = feed OBVIOUS
  <2>2. Fulfils(r, c, b) BY <2>1, QueryFulfils
  <2>3. Fulfils(r, c, b)' BY <2>1, <2>2, FulfilsStays
  <2>4. load' = [load EXCEPT ![l] =
                    [pc |-> "answered", cursor |-> c, append |-> load[l].append,
                     result |-> r, base |-> b]]
    BY <1>4, <2>1 DEF Answer
  <2>5. load'[l].result = r /\ load'[l].cursor = c /\ load'[l].base = b
    BY <2>4 DEF LoadsFit
  <2>6. \A k \in Loads \ {l} : load'[k] = load[k] BY <2>4 DEF LoadsFit
  <2>7. Good(l)' BY <2>1, <2>3, <2>5 DEF RowsStay
  <2> QED BY <1>1, <2>6, <2>7 DEF AnswersFit
<1>5. ASSUME NEW l \in Loads, load' = [load EXCEPT ![l] = IdleLoad] PROVE AnswersFit'
  <2>1. load'[l].pc = "idle" /\ \A k \in Loads \ {l} : load'[k] = load[k]
    BY <1>5 DEF LoadsFit, IdleLoad
  <2> QED BY <1>2, <2>1
<1>6. CASE UNCHANGED load BY <1>1, <1>6 DEF AnswersFit
<1> QED BY <1>3, <1>4, <1>5, <1>6, LoadCases

\* A response that continues the walk does so rightly.
LEMMA PageStep ==
    ASSUME RowsFit, RowsStay, LoadsFit, AnswersFit, PageFits, [Next]_vars
    PROVE  PageFits'
<1>1. ASSUME UNCHANGED page PROVE PageFits'
  <2>1. page'.next # Nothing => page'.next \in Cursor BY <1>1 DEF PageFits
  <2>2. ASSUME page'.walk PROVE Walked(page)'
    <3>1. PICK p : p = page OBVIOUS
    <3>2. Walked(p) BY <1>1, <2>2, <3>1 DEF PageFits
    <3>3. Walked(p)' BY <3>2, WalkedStays
    <3> QED BY <1>1, <3>1, <3>3
  <2> QED BY <2>1, <2>2 DEF PageFits
<1>2. ASSUME NEW l \in Loads, Arrive(l) PROVE PageFits'
  <2>1. PICK p, q, r, c, b : /\ p = page /\ q = page' /\ r = load[l].result
                             /\ c = load[l].cursor /\ b = load[l].base
    OBVIOUS
  <2>2. load[l].pc = "answered" BY <1>2 DEF Arrive
  <2>3. b \subseteq feed /\ Fulfils(r, c, b) BY <2>1, <2>2 DEF AnswersFit
  <2>4. load[l] # IdleLoad BY <2>2 DEF IdleLoad
  <2>5. load[l].append <=> c # Nothing BY <2>1, <2>4 DEF LoadsFit
  <2> DEFINE end == IF r.next = Nothing THEN {} ELSE {Last(r.items)}
  <2>6. ASSUME load[l].append PROVE q.next = r.next /\ (q.walk => Walked(q))
    <3>1. q = [items |-> p.items \o r.items, next |-> r.next,
               base |-> p.base, ends |-> p.ends \cup end,
               walk |-> /\ p.walk /\ c = p.next /\ p.base \subseteq b]
      BY <1>2, <2>1, <2>6 DEF Arrive
    <3>2. /\ q.items = p.items \o r.items /\ q.next = r.next /\ q.base = p.base
          /\ q.ends = p.ends \cup end
      BY <3>1
    <3>3. q.walk = (p.walk /\ c = p.next /\ p.base \subseteq b) BY <3>1, Zenon
    <3>4. ASSUME q.walk PROVE Walked(q)
      <4>1. p.walk /\ c = p.next /\ p.base \subseteq b BY <3>3, <3>4, Zenon
      <4>2. Walked(p) BY <2>1, <4>1 DEF PageFits
      <4>3. p.next # Nothing /\ Fulfils(r, p.next, b) BY <2>3, <2>5, <2>6, <4>1
      <4> QED BY <2>3, <3>2, <4>1, <4>2, <4>3, NextPageWalked
    <3> QED BY <3>2, <3>4
  <2>7. ASSUME ~load[l].append PROVE q.next = r.next /\ (q.walk => Walked(q))
    <3>1. q = [items |-> r.items, next |-> r.next, base |-> b, ends |-> end, walk |-> TRUE]
      BY <1>2, <2>1, <2>7 DEF Arrive
    <3>2. q.items = r.items /\ q.next = r.next /\ q.base = b /\ q.ends = end BY <3>1
    <3>3. Fulfils(r, Nothing, b) BY <2>3, <2>5, <2>7
    <3> QED BY <2>3, <3>2, <3>3, FirstPageWalked
  <2>8. q.next = r.next /\ (q.walk => Walked(q)) BY <2>6, <2>7
  <2>9. r.next # Nothing => r.next \in Cursor
    <3>1. ASSUME r.next # Nothing PROVE r.next \in Cursor
      <4>1. r.items \in Seq(b) /\ r.items # <<>> /\ r.next = encodeCursor(Last(r.items))
        BY <2>3, <3>1 DEF Fulfils
      <4>2. Last(r.items) \in feed BY <2>3, <4>1 DEF Last
      <4> QED BY <4>1, <4>2, CursorTime
    <3> QED BY <3>1
  <2>10. q.walk => Walked(q)' BY <2>8, WalkedStays
  <2> QED BY <2>1, <2>8, <2>9, <2>10 DEF PageFits
<1>3. ASSUME NEW x \in Items, Record(x) \/ emitToUser(x) \/ PushLost(x) PROVE UNCHANGED page
  BY <1>3 DEF Record, emitToUser, PushLost
<1>4. CASE Connect \/ Disconnect \/ Refresh \/ LoadMore \/ UNCHANGED vars
  BY <1>1, <1>4 DEF Connect, Disconnect, Refresh, LoadMore, vars
<1>5. ASSUME NEW l \in Loads, Answer(l) \/ LoadFails(l) PROVE UNCHANGED page
  BY <1>5 DEF Answer, LoadFails
<1> QED BY <1>1, <1>2, <1>3, <1>4, <1>5 DEF Next

-----------------------------------------------------------------------------
(* Items that are not shown *)

First(x) == x \in Range(listForUser(Nothing).items)

\* A request that will bring x.
Bringing(x) ==
    \E l \in Loads : \/ load[l].pc = "asked" /\ ~load[l].append
                     \/ load[l].pc = "answered" /\ x \in Range(load[l].result.items)

Explained(x) ==
    \/ fate[x] # "open"
    \/ socket.once /\ ~socket.joined
    \/ Bringing(x)

LEMMA UnseenMeans == UnseenIsExplained <=> \A x \in pushed : First(x) => Explained(x)
BY DEF UnseenIsExplained, First, Explained, Bringing, Brings

LEMMA UnseenMeansNext ==
    UnseenIsExplained' <=> (\A x \in pushed : First(x) => Explained(x))'
BY UnseenMeans, PTL

\* New rows can only push a row off the first page.
LEMMA FirstPageShrinks ==
    ASSUME RowsFit, RowsFit', RowsStay, NEW x \in feed, First(x)'
    PROVE  First(x)
<1> DEFINE before == {y \in feed : Newer(y, x)}
           after == {y \in feed' : Newer(y, x)'}
<1>1. before \in SUBSET after BY DEF RowsStay, Newer
<1>2. IsFiniteSet(after) BY FS_Subset DEF RowsFit
<1>3. IsFiniteSet(before) /\ Cardinality(before) <= Cardinality(after) BY <1>1, <1>2, FS_Subset
<1>4. Cardinality(before) \in Nat /\ Cardinality(after) \in Nat
  BY <1>2, <1>3, FS_CardinalityType
<1>5. Position(x, feed) = 1 + Cardinality(before) BY DEF Position
<1>6. Position(x, feed)' = 1 + Cardinality(after) BY DEF Position
<1>7. FirstPageFits /\ FirstPageFits' BY FirstPageHere, FirstPageNext
<1>8. Position(x, feed)' <= Limit BY <1>7 DEF FirstPageFits, First
<1> HIDE DEF before, after
<1>9. Position(x, feed) <= Limit BY <1>3, <1>4, <1>5, <1>6, <1>8, ActivityAssumption
<1> QED BY <1>7, <1>9 DEF FirstPageFits, First

\* A new request takes nothing away.
LEMMA FetchBrings ==
    ASSUME LoadsFit, NEW c, NEW a, Fetch(c, a)
    PROVE  /\ \A x : Bringing(x) => Bringing(x)'
           /\ a = FALSE => \A x : Bringing(x)'
<1>1. PICK l \in Loads :
        /\ load[l].pc = "idle"
        /\ load' = [load EXCEPT ![l] = [pc |-> "asked", cursor |-> c, append |-> a]]
  BY DEF Fetch
<1>2. /\ load'[l].pc = "asked" /\ load'[l].append = a
      /\ \A k \in Loads \ {l} : load'[k] = load[k]
  BY <1>1 DEF LoadsFit
<1>3. ASSUME NEW x, Bringing(x) PROVE Bringing(x)'
  <2>1. PICK k \in Loads : \/ load[k].pc = "asked" /\ ~load[k].append
                           \/ load[k].pc = "answered" /\ x \in Range(load[k].result.items)
    BY <1>3 DEF Bringing
  <2>2. k # l BY <1>1, <2>1
  <2>3. load'[k] = load[k] BY <1>2, <2>2
  <2> QED BY <2>1, <2>3 DEF Bringing
<1>4. ASSUME NEW x, a = FALSE PROVE Bringing(x)' BY <1>2, <1>4 DEF Bringing
<1> QED BY <1>3, <1>4

\* A request answered brings what was on the first page; one that has arrived
\* has brought it.
LEMMA AnswerBrings ==
    ASSUME LoadsFit, NEW l \in Loads, Answer(l), NEW x, First(x), Bringing(x)
    PROVE  Bringing(x)'
<1>1. PICK k \in Loads : \/ load[k].pc = "asked" /\ ~load[k].append
                         \/ load[k].pc = "answered" /\ x \in Range(load[k].result.items)
  BY DEF Bringing
<1>2. load' = [load EXCEPT ![l] =
                  [pc |-> "answered", cursor |-> load[l].cursor, append |-> load[l].append,
                   result |-> listForUser(load[l].cursor), base |-> feed]]
  BY DEF Answer
<1>3. CASE k # l
  <2>1. load'[k] = load[k] BY <1>2, <1>3 DEF LoadsFit
  <2> QED BY <1>1, <2>1 DEF Bringing
<1>4. CASE k = l
  <2>1. load[l].pc = "asked" /\ ~load[l].append BY <1>1, <1>4 DEF Answer
  <2>2. load[l].cursor = Nothing BY <2>1 DEF LoadsFit, IdleLoad
  <2>3. load'[l].pc = "answered" /\ load'[l].result = listForUser(Nothing)
    BY <1>2, <2>2 DEF LoadsFit
  <2>4. x \in Range(load'[l].result.items) BY <2>3 DEF First
  <2> QED BY <2>3, <2>4 DEF Bringing
<1> QED BY <1>3, <1>4

LEMMA ArriveBrings ==
    ASSUME LoadsFit, NEW l \in Loads, Arrive(l), NEW x \in Items, Bringing(x)
    PROVE  fate'[x] = "shown" \/ Bringing(x)'
<1>1. PICK k \in Loads : \/ load[k].pc = "asked" /\ ~load[k].append
                         \/ load[k].pc = "answered" /\ x \in Range(load[k].result.items)
  BY DEF Bringing
<1>2. /\ load[l].pc = "answered"
      /\ load' = [load EXCEPT ![l] = IdleLoad]
      /\ x \in Range(load[l].result.items) => fate'[x] = "shown"
  BY DEF Arrive
<1>3. CASE k # l
  <2>1. load'[k] = load[k] BY <1>2, <1>3 DEF LoadsFit
  <2> QED BY <1>1, <2>1 DEF Bringing
<1>4. CASE k = l BY <1>1, <1>2, <1>4
<1> QED BY <1>3, <1>4

\* What has become of an item stays known.
LEMMA FateStays ==
    ASSUME [Next]_vars, NEW x \in Items, fate[x] # "open"
    PROVE  fate'[x] # "open"
<1>1. \A xs, how : Lose(xs, how)[x] = fate[x] BY DEF Lose
<1>2. ASSUME NEW y \in Items, Record(y) \/ emitToUser(y) \/ PushLost(y) PROVE fate'[x] # "open"
  BY <1>1, <1>2 DEF Record, emitToUser, PushLost
<1>3. CASE Connect \/ Disconnect \/ Refresh \/ LoadMore \/ UNCHANGED vars
  BY <1>3 DEF Connect, Disconnect, Refresh, LoadMore, vars
<1>4. ASSUME NEW l \in Loads, Answer(l) PROVE fate'[x] # "open" BY <1>4 DEF Answer
<1>5. ASSUME NEW l \in Loads, Arrive(l) PROVE fate'[x] # "open"
  <2>1. fate'[x] = IF x \in Range(load[l].result.items) THEN "shown"
                   ELSE Lose(Owed, "forgotten")[x]
    BY <1>5 DEF Arrive
  <2> QED BY <1>1, <2>1
<1>6. ASSUME NEW l \in Loads, LoadFails(l) PROVE fate'[x] # "open"
  <2>1. fate'[x] = IF x \in pushed /\ Brings(l, x) THEN Lose({x}, "missed")[x]
                   ELSE Lose(Owed, "forgotten")[x]
    BY <1>6 DEF LoadFails
  <2> QED BY <1>1, <2>1
<1> QED BY <1>2, <1>3, <1>4, <1>5, <1>6 DEF Next

\* A request that fails loses what it would have brought, and no other does.
LEMMA FailureBrings ==
    ASSUME LoadsFit, NEW l \in Loads, LoadFails(l), NEW x \in Items, x \in pushed, Bringing(x)
    PROVE  fate'[x] # "open" \/ Bringing(x)'
<1>1. PICK k \in Loads : Brings(k, x) BY DEF Bringing, Brings
<1>2. /\ load' = [load EXCEPT ![l] = IdleLoad]
      /\ Brings(l, x) => fate'[x] = Lose({x}, "missed")[x]
  BY DEF LoadFails
<1>3. CASE k # l
  <2>1. load'[k] = load[k] BY <1>2, <1>3 DEF LoadsFit
  <2> QED BY <1>1, <2>1 DEF Bringing, Brings
<1>4. CASE k = l BY <1>1, <1>2, <1>4 DEF Lose
<1> QED BY <1>3, <1>4

\* Every step keeps the explanation of an item or has another one.
LEMMA ExplainedStep ==
    ASSUME RowsFit, SocketFits, LoadsFit, [Next]_vars,
           NEW x \in pushed, First(x), Explained(x)
    PROVE  Explained(x)'
<1>0. x \in Items BY DEF RowsFit
<1>00. CASE fate[x] # "open" BY <1>0, <1>00, FateStays DEF Explained
<1> SUFFICES ASSUME (socket.once /\ ~socket.joined) \/ Bringing(x) PROVE Explained(x)'
  BY <1>00 DEF Explained
<1>1. ASSUME UNCHANGED <<socket, load>> PROVE Explained(x)'
  BY <1>1 DEF Explained, Bringing
<1>2. ASSUME NEW y \in Items, Record(y) \/ PushLost(y) PROVE Explained(x)'
  BY <1>1, <1>2 DEF Record, PushLost
<1>3. ASSUME NEW y \in Items, emitToUser(y) PROVE Explained(x)'
  <2>1. UNCHANGED socket BY <1>3 DEF emitToUser
  <2>2. CASE UNCHANGED load BY <1>1, <2>1, <2>2
  <2>3. CASE Fetch(Nothing, FALSE) BY <2>3, FetchBrings DEF Explained
  <2> QED BY <1>3, <2>2, <2>3 DEF emitToUser
<1>4. CASE Connect
  <2>1. CASE socket.once
    <3>1. Fetch(Nothing, FALSE) BY <1>4, <2>1 DEF Connect
    <3> QED BY <3>1, FetchBrings DEF Explained
  <2>2. CASE ~socket.once
    <3>1. UNCHANGED load BY <1>4, <2>2 DEF Connect
    <3> QED BY <2>2, <3>1 DEF Explained, Bringing
  <2> QED BY <2>1, <2>2
<1>5. CASE Disconnect
  <2>1. UNCHANGED load BY <1>5 DEF Disconnect
  <2>2. socket' = [socket EXCEPT !.joined = FALSE] BY <1>5 DEF Disconnect
  <2>3. socket.once => socket'.once /\ ~socket'.joined BY <2>2, Zenon DEF SocketFits, Sockets
  <2> QED BY <2>1, <2>3 DEF Explained, Bringing
<1>6. CASE Refresh \/ LoadMore
  <2>1. UNCHANGED socket BY <1>6 DEF Refresh, LoadMore
  <2>2. Bringing(x) => Bringing(x)'
    <3>1. PICK c, a : Fetch(c, a)
      <4>1. CASE Refresh BY <4>1 DEF Refresh
      <4>2. CASE LoadMore
        <5>1. PICK c : c = page.next OBVIOUS
        <5>2. Fetch(c, TRUE) BY <4>2, <5>1 DEF LoadMore
        <5> QED BY <5>2
      <4> QED BY <1>6, <4>1, <4>2
    <3> QED BY <3>1, FetchBrings
  <2> QED BY <2>1, <2>2 DEF Explained
<1>7. ASSUME NEW l \in Loads, Answer(l) PROVE Explained(x)'
  <2>1. UNCHANGED socket BY <1>7 DEF Answer
  <2> QED BY <1>7, <2>1, AnswerBrings DEF Explained
<1>8. ASSUME NEW l \in Loads, Arrive(l) PROVE Explained(x)'
  <2>1. CASE socket.once /\ ~socket.joined
    <3>1. x \in Owed BY <2>1 DEF Owed
    <3>2. fate'[x] = IF x \in Range(load[l].result.items) THEN "shown"
                     ELSE Lose(Owed, "forgotten")[x]
      BY <1>0, <1>8 DEF Arrive
    <3> QED BY <1>0, <3>1, <3>2 DEF Explained, Lose
  <2>2. CASE Bringing(x) BY <1>0, <1>8, <2>2, ArriveBrings DEF Explained
  <2> QED BY <2>1, <2>2
<1>9. ASSUME NEW l \in Loads, LoadFails(l) PROVE Explained(x)'
  <2>1. CASE socket.once /\ ~socket.joined
    <3>1. x \in Owed BY <2>1 DEF Owed
    <3>2. fate'[x] = IF x \in pushed /\ Brings(l, x) THEN Lose({x}, "missed")[x]
                     ELSE Lose(Owed, "forgotten")[x]
      BY <1>0, <1>9 DEF LoadFails
    <3> QED BY <1>0, <3>1, <3>2 DEF Explained, Lose
  <2>2. CASE Bringing(x) BY <1>0, <1>9, <2>2, FailureBrings DEF Explained
  <2> QED BY <2>1, <2>2
<1>10. CASE UNCHANGED vars BY <1>1, <1>10 DEF vars
<1> QED BY <1>2, <1>3, <1>4, <1>5, <1>6, <1>7, <1>8, <1>9, <1>10 DEF Next

\* An item that is pushed now is explained: the socket hears of it, or will
\* refresh when it comes back, or nobody told the browser.
LEMMA PushExplained ==
    ASSUME SocketFits, LoadsFit, [Next]_vars, NEW x \in pushed' \ pushed
    PROVE  Explained(x)'
<1>1. ASSUME UNCHANGED pushed PROVE FALSE BY <1>1
<1>2. ASSUME NEW y \in Items, emitToUser(y) PROVE Explained(x)'
  <2>1. x = y /\ UNCHANGED socket BY <1>2 DEF emitToUser
  <2>2. CASE socket.joined
    <3>1. Fetch(Nothing, FALSE) BY <1>2, <2>2 DEF emitToUser
    <3> QED BY <3>1, FetchBrings DEF Explained
  <2>3. CASE ~socket.joined /\ socket.once BY <2>1, <2>3 DEF Explained
  <2>4. CASE ~socket.joined /\ ~socket.once
    <3>1. fate' = Lose({x}, IF socket.before THEN "forgotten" ELSE "missed")
      BY <1>2, <2>1, <2>4 DEF emitToUser
    <3> QED BY <2>1, <3>1 DEF Explained, Lose
  <2> QED BY <2>2, <2>3, <2>4
<1>3. ASSUME NEW y \in Items, PushLost(y) PROVE Explained(x)'
  BY <1>3 DEF PushLost, Explained, Lose
<1>4. ASSUME NEW y \in Items, Record(y) PROVE FALSE BY <1>1, <1>4 DEF Record
<1>5. CASE Connect \/ Disconnect \/ Refresh \/ LoadMore \/ UNCHANGED vars
  BY <1>1, <1>5 DEF Connect, Disconnect, Refresh, LoadMore, vars
<1>6. ASSUME NEW l \in Loads, Answer(l) \/ Arrive(l) \/ LoadFails(l) PROVE FALSE
  BY <1>1, <1>6 DEF Answer, Arrive, LoadFails
<1> QED BY <1>2, <1>3, <1>4, <1>5, <1>6 DEF Next

-----------------------------------------------------------------------------
(* Theorems *)

LEMMA InitIInv == Init => IInv
<1> SUFFICES ASSUME Init PROVE IInv OBVIOUS
<1>1. RowsFit BY FS_EmptySet DEF Init, RowsFit
<1>2. SocketFits BY Zenon DEF Init, SocketFits, Sockets, NewSocket
<1>3. LoadsFit BY DEF Init, LoadsFit
<1>4. AnswersFit BY DEF Init, AnswersFit, IdleLoad
<1>5. PageFits
  <2>1. page.items = <<>> /\ page.next = Nothing /\ page.base = {} /\ page.ends = {}
    BY DEF Init, EmptyPage
  <2>2. Walked(page) BY <2>1 DEF Walked, IsInjective
  <2> QED BY <2>1, <2>2 DEF PageFits
<1> QED BY <1>1, <1>2, <1>3, <1>4, <1>5 DEF IInv

\* The invariant is inductive.
THEOREM InvariantHolds == Spec => []IInv
<1>1. IInv /\ [Next]_vars => IInv'
  BY RowsStep, SocketStep, LoadsStep, AnswersStep, PageStep DEF IInv
<1> QED BY <1>1, InitIInv, PTL DEF Spec

\* Consecutive pages, each loaded with the cursor of the one before, show every
\* row that was there at the beginning, down to the last one shown, once, except
\* rows of the millisecond in which a page ends: whatever is committed between
\* them, in whatever order of time.
THEOREM WalksAreComplete == Spec => []WalkIsComplete
<1>1. IInv => WalkIsComplete BY DEF IInv, PageFits, Walked, WalkIsComplete
<1> QED BY <1>1, InvariantHolds, PTL

\* An item of the first page that was pushed has been shown, or a request or a
\* socket will bring it, or it was lost in one of the ways that UnseenIsExplained
\* names: before the first connection, with an error, or when a render replaced
\* the socket.
THEOREM UnseenAlwaysExplained == Spec => []UnseenIsExplained
<1>1. Init => UnseenIsExplained BY DEF Init, UnseenIsExplained
<1>2. IInv /\ IInv' /\ UnseenIsExplained /\ [Next]_vars => UnseenIsExplained'
  <2> SUFFICES ASSUME IInv, IInv', UnseenIsExplained, [Next]_vars PROVE UnseenIsExplained'
    OBVIOUS
  <2>1. \A x \in pushed : First(x) => Explained(x) BY UnseenMeans
  <2>2. RowsStay BY RowsStep DEF IInv
  <2>3. ASSUME NEW x \in pushed', First(x)' PROVE Explained(x)'
    <3>1. CASE x \in pushed
      <4>1. First(x) BY <2>2, <2>3, <3>1, FirstPageShrinks DEF IInv, RowsFit
      <4> QED BY <2>1, <3>1, <4>1, ExplainedStep DEF IInv
    <3>2. CASE x \notin pushed BY <2>3, <3>2, PushExplained DEF IInv
    <3> QED BY <3>1, <3>2
  <2> QED BY <2>3, UnseenMeansNext
<1> QED BY <1>1, <1>2, InvariantHolds, PTL DEF Spec
=============================================================================
