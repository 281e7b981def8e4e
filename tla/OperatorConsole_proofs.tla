------------------------ MODULE OperatorConsole_proofs ------------------------
(* For any catalogue, agents, searches, clicks, changes and faults: every list     *)
(* pages without gap or repetition, the buckets of the Listings screen come to     *)
(* rest at what the server holds, no send is queued without consent, the other     *)
(* screens keep what the server has, and the email previewed is the email drafted. *)
EXTENDS OperatorConsole, TLAPS, FiniteSetTheorems, SequenceTheorems
-----------------------------------------------------------------------------
(* ORDER BY and LIMIT *)

\* The order puts every two rows one before the other.
Line(S, R) ==
  /\ \A x \in S : <<x, x>> \notin R
  /\ \A x, y \in S : x # y => <<x, y>> \in R \/ <<y, x>> \in R
  /\ \A x, y, z \in S : <<x, y>> \in R /\ <<y, z>> \in R => <<x, z>> \in R

\* A sorted set is a sequence of its rows, each once, in the order.
LEMMA SortedLine ==
  ASSUME NEW S, NEW R, IsFiniteSet(S), Line(S, R)
  PROVE  /\ Cardinality(S) \in Nat
         /\ Sorted(S, R) \in [1..Cardinality(S) -> S]
         /\ \A row \in S : \E i \in 1..Cardinality(S) : Sorted(S, R)[i] = row
         /\ \A i, j \in 1..Cardinality(S) : i < j => <<Sorted(S, R)[i], Sorted(S, R)[j]>> \in R
<1> DEFINE n == Cardinality(S)
           Ahd(row) == {x \in S : <<x, row>> \in R}
           rank == [row \in S |-> Cardinality(Ahd(row)) + 1]
<1>1. n \in Nat /\ IsFiniteSet(1..n) /\ Cardinality(1..n) = n
  <2>1. n \in Nat
    BY FS_CardinalityType
  <2>2. IsFiniteSet(1..n) /\ Cardinality(1..n) = IF 1 > n THEN 0 ELSE n - 1 + 1
    BY <2>1, FS_Interval
  <2> QED
    BY <2>1, <2>2
<1>2. ASSUME NEW row \in S
      PROVE  Cardinality(Ahd(row)) \in Nat /\ Cardinality(Ahd(row)) < n
  <2>1. Ahd(row) \in SUBSET S /\ row \notin Ahd(row)
    BY DEF Line
  <2>2. /\ IsFiniteSet(Ahd(row)) /\ Cardinality(Ahd(row)) <= n
        /\ n = Cardinality(Ahd(row)) => S = Ahd(row)
    BY <2>1, FS_Subset
  <2>3. Cardinality(Ahd(row)) \in Nat
    BY <2>2, FS_CardinalityType
  <2> HIDE DEF n
  <2> QED
    BY <1>1, <2>1, <2>2, <2>3
<1>3. rank \in [S -> 1..n]
  <2> HIDE DEF n, Ahd
  <2> QED
    BY <1>1, <1>2
<1>4. ASSUME NEW x \in S, NEW y \in S, <<x, y>> \in R
      PROVE  rank[x] < rank[y]
  <2>1. Ahd(x) \in SUBSET Ahd(y) /\ x \in Ahd(y) /\ x \notin Ahd(x)
    BY <1>4 DEF Line
  <2>2. IsFiniteSet(Ahd(y))
    BY FS_Subset
  <2>3. Cardinality(Ahd(x)) <= Cardinality(Ahd(y)) /\ (Cardinality(Ahd(y)) = Cardinality(Ahd(x)) => Ahd(y) = Ahd(x))
    BY <2>1, <2>2, FS_Subset
  <2> HIDE DEF Ahd
  <2> QED
    BY <1>2, <2>1, <2>3
<1>5. rank \in Injection(S, 1..n)
  <2>1. \A x, y \in S : rank[x] = rank[y] => x = y
    <3> SUFFICES ASSUME NEW x \in S, NEW y \in S, x # y PROVE rank[x] # rank[y]
      OBVIOUS
    <3>1. <<x, y>> \in R \/ <<y, x>> \in R
      BY DEF Line
    <3> HIDE DEF rank
    <3>2. rank[x] \in Int /\ rank[y] \in Int
      BY <1>1, <1>3
    <3> QED
      BY <1>4, <3>1, <3>2
  <2> HIDE DEF rank
  <2> QED
    BY <1>3, <2>1 DEF Injection, IsInjective
<1>6. rank \in Surjection(S, 1..n)
  BY <1>1, <1>5, FS_Injection
<1>7. ASSUME NEW i \in 1..n
      PROVE  Sorted(S, R)[i] \in S /\ rank[Sorted(S, R)[i]] = i
  <2>1. PICK row \in S : rank[row] = i
    <3> HIDE DEF rank
    <3> QED
      BY <1>6 DEF Surjection
  <2>2. Cardinality(Ahd(row)) = i - 1
    BY <1>2, <2>1
  <2>3. Sorted(S, R)[i] = CHOOSE x \in S : Cardinality(Ahd(x)) = i - 1
    BY DEF Sorted
  <2>4. Sorted(S, R)[i] \in S /\ Cardinality(Ahd(Sorted(S, R)[i])) = i - 1
    BY <2>2, <2>3
  <2> QED
    BY <1>1, <2>4
<1>8. \A row \in S : rank[row] \in 1..n /\ Sorted(S, R)[rank[row]] = row
  <2> SUFFICES ASSUME NEW row \in S PROVE rank[row] \in 1..n /\ Sorted(S, R)[rank[row]] = row
    OBVIOUS
  <2> HIDE DEF rank
  <2>1. rank[row] \in 1..n
    BY <1>3
  <2>2. Sorted(S, R)[rank[row]] \in S /\ rank[Sorted(S, R)[rank[row]]] = rank[row]
    BY <1>7, <2>1
  <2> QED
    BY <1>5, <2>1, <2>2 DEF Injection, IsInjective
<1>9. ASSUME NEW i \in 1..n, NEW j \in 1..n, i < j
      PROVE  <<Sorted(S, R)[i], Sorted(S, R)[j]>> \in R
  <2> DEFINE x == Sorted(S, R)[i]
             y == Sorted(S, R)[j]
  <2>1. x \in S /\ y \in S /\ rank[x] = i /\ rank[y] = j
    BY <1>7
  <2> HIDE DEF x, y, rank
  <2>2. x # y /\ ~(rank[y] < rank[x])
    BY <1>1, <1>9, <2>1
  <2>3. <<x, y>> \in R
    BY <1>4, <2>1, <2>2 DEF Line
  <2> QED
    BY <2>3 DEF x, y
<1>10. Sorted(S, R) \in [1..n -> S]
  <2> DEFINE nth(i) == CHOOSE x \in S : Cardinality(Ahd(x)) = i - 1
  <2>1. Sorted(S, R) = [i \in 1..n |-> nth(i)]
    BY DEF Sorted
  <2> HIDE DEF nth, n, rank
  <2>2. \A i \in 1..n : nth(i) \in S
    BY <1>7, <2>1
  <2> QED
    BY <2>1, <2>2
<1> HIDE DEF rank
<1> QED
  BY <1>1, <1>8, <1>9, <1>10

\* Some of the rows of S, each once; all there are, or those up to a last one.
IsPage(items, next, S, R, limit, cursor) ==
  /\ \E n \in Nat : items \in [1..n -> S]
  /\ \A i, j \in DOMAIN items : items[i] = items[j] => i = j
  /\ \/ next = NoCursor /\ \A row \in S : \E i \in DOMAIN items : items[i] = row
     \/ \E last \in S :
          /\ next = cursor[last] /\ DOMAIN items = 1..limit
          /\ \A row \in S : (\E i \in DOMAIN items : items[i] = row)
                              <=> (row = last \/ <<row, last>> \in R)

LEMMA PageIs ==
  ASSUME NEW S, NEW R, IsFiniteSet(S), Line(S, R), NEW limit \in Nat \ {0}, NEW cursor, NEW page,
         page = paginate(SubSeq(Sorted(S, R), 1, Min({limit + 1, Cardinality(S)})), limit, cursor)
  PROVE  IsPage(page.items, page.nextCursor, S, R, limit, cursor)
<1> DEFINE n == Cardinality(S)
           s == Sorted(S, R)
           m == Min({limit + 1, n})
           t == SubSeq(s, 1, m)
<1>1. /\ n \in Nat /\ s \in [1..n -> S] /\ \A row \in S : \E i \in 1..n : s[i] = row
      /\ \A i, j \in 1..n : i < j => <<s[i], s[j]>> \in R
  BY SortedLine
<1> HIDE DEF n, s
<1>2. m = IF limit + 1 <= n THEN limit + 1 ELSE n
  BY <1>1 DEF Min
<1>3. \A i, j \in 1..n : s[i] = s[j] => i = j
  <2> SUFFICES ASSUME NEW i \in 1..n, NEW j \in 1..n, i < j PROVE s[i] # s[j]
    BY <1>1
  <2> QED
    BY <1>1 DEF Line
<1> HIDE DEF m
<1>4. s \in Seq(S) /\ Len(s) = n
  BY <1>1
<1>5. t \in Seq(S) /\ Len(t) = m /\ t = [i \in 1..m |-> s[i]]
  <2>1. t = [i \in 1..m |-> s[i]]
    BY <1>1, <1>2, <1>4
  <2> HIDE DEF t
  <2> QED
    BY <1>1, <1>2, <2>1
<1>0. page = IF Len(t) <= limit THEN [items |-> t, nextCursor |-> NoCursor]
             ELSE [items |-> SubSeq(t, 1, limit), nextCursor |-> cursor[t[limit]]]
  BY DEF paginate, t, s, m, n
<1> HIDE DEF t
<1>6. CASE n <= limit
  <2>1. m = n /\ Len(t) <= limit
    BY <1>1, <1>2, <1>5, <1>6
  <2>2. page.items = t /\ page.nextCursor = NoCursor /\ t = s
    <3>1. page = [items |-> t, nextCursor |-> NoCursor]
      BY <1>0, <2>1
    <3>2. t = s
      BY <1>1, <1>5, <2>1
    <3> QED
      BY <3>1, <3>2
  <2>3. IsPage(s, NoCursor, S, R, limit, cursor)
    BY <1>1, <1>3 DEF IsPage
  <2> QED
    BY <2>2, <2>3
<1>7. CASE ~(n <= limit)
  <2>1. m = limit + 1 /\ ~(Len(t) <= limit)
    BY <1>1, <1>2, <1>5, <1>7
  <2>2. SubSeq(t, 1, limit) = [i \in 1..limit |-> s[i]]
    BY <1>5, <2>1
  <2>3. t[limit] = s[limit] /\ limit \in 1..n /\ 1..limit \subseteq 1..n
    BY <1>1, <1>5, <1>7, <2>1
  <2> DEFINE u == [i \in 1..limit |-> s[i]]
  <2>4. page.items = u /\ page.nextCursor = cursor[s[limit]]
    <3>1. page = [items |-> SubSeq(t, 1, limit), nextCursor |-> cursor[t[limit]]]
      BY <1>0, <2>1
    <3>2. u = SubSeq(t, 1, limit) /\ cursor[t[limit]] = cursor[s[limit]]
      BY <2>2, <2>3
    <3> HIDE DEF u
    <3>3. page = [items |-> u, nextCursor |-> cursor[s[limit]]]
      BY <3>1, <3>2
    <3> QED
      BY <3>3
  <2>5. u \in [1..limit -> S] /\ \A i, j \in 1..limit : u[i] = u[j] => i = j
    BY <1>1, <1>3, <2>3
  <2>6. s[limit] \in S
    BY <1>1, <2>3
  <2>7. ASSUME NEW row \in S
        PROVE  (\E i \in 1..limit : u[i] = row) <=> (row = s[limit] \/ <<row, s[limit]>> \in R)
    <3>1. PICK k \in 1..n : s[k] = row
      BY <1>1
    <3>2. CASE k <= limit
      <4>1. k \in 1..limit /\ u[k] = row
        BY <3>1, <3>2
      <4>2. k = limit \/ <<s[k], s[limit]>> \in R
        BY <1>1, <2>3, <4>1
      <4> QED
        BY <3>1, <4>1, <4>2
    <3>3. CASE ~(k <= limit)
      <4>1. <<s[limit], s[k]>> \in R
        BY <1>1, <2>3, <3>3
      <4>2. row # s[limit] /\ <<row, s[limit]>> \notin R
        BY <2>6, <3>1, <4>1 DEF Line
      <4>3. ~ \E i \in 1..limit : u[i] = row
        BY <1>3, <2>3, <3>1, <3>3
      <4> QED
        BY <4>2, <4>3
    <3> QED
      BY <3>2, <3>3
  <2> HIDE DEF u
  <2>8. DOMAIN u = 1..limit
    BY DEF u
  <2>9. IsPage(u, cursor[s[limit]], S, R, limit, cursor)
    <3>1. \E k \in Nat : u \in [1..k -> S]
      BY <2>5
    <3> QED
      BY <2>5, <2>6, <2>7, <2>8, <3>1 DEF IsPage
  <2> QED
    BY <2>4, <2>9
<1> QED
  BY <1>6, <1>7
-----------------------------------------------------------------------------
(* Sets of numbers *)

LEMMA ImageFinite ==
  ASSUME NEW D, IsFiniteSet(D), NEW f, DOMAIN f = D
  PROVE  IsFiniteSet({f[x] : x \in D}) /\ Cardinality({f[x] : x \in D}) <= Cardinality(D)
<1> DEFINE T == {f[x] : x \in D}
           g == [x \in D |-> f[x]]
<1>1. g \in Surjection(D, T)
  BY DEF Surjection
<1> QED
  BY <1>1, FS_Surjection

LEMMA MaxIs ==
  ASSUME NEW S \in SUBSET Int, IsFiniteSet(S), S # {}
  PROVE  Max(S) \in S /\ \A x \in S : x <= Max(S)
<1> DEFINE R == {p \in S \X S : p[1] < p[2]}
           n == Cardinality(S)
<1>1. \A x, y \in S : <<x, y>> \in R <=> x < y
  OBVIOUS
<1> HIDE DEF R
<1>2. Line(S, R)
  BY <1>1 DEF Line
<1>3. /\ n \in Nat /\ Sorted(S, R) \in [1..n -> S] /\ \A x \in S : \E i \in 1..n : Sorted(S, R)[i] = x
      /\ \A i, j \in 1..n : i < j => <<Sorted(S, R)[i], Sorted(S, R)[j]>> \in R
  BY <1>2, SortedLine
<1> HIDE DEF n
<1>4. n \in 1..n
  <2>1. PICK x \in S : TRUE
    OBVIOUS
  <2>2. PICK i \in 1..n : Sorted(S, R)[i] = x
    BY <1>3
  <2> QED
    BY <1>3, <2>2
<1> DEFINE top == Sorted(S, R)[n]
<1>5. top \in S
  BY <1>3, <1>4
<1>6. \A x \in S : x <= top
  <2> SUFFICES ASSUME NEW x \in S PROVE x <= top
    OBVIOUS
  <2>1. PICK i \in 1..n : Sorted(S, R)[i] = x
    BY <1>3
  <2>2. i = n \/ (i < n /\ <<x, top>> \in R)
    BY <1>3, <1>4, <2>1
  <2> HIDE DEF top
  <2>3. x = top \/ <<x, top>> \in R
    BY <2>1, <2>2 DEF top
  <2> QED
    BY <1>1, <1>5, <2>3
<1> HIDE DEF top
<1>7. \E x \in S : \A y \in S : x >= y
  BY <1>5, <1>6
<1>8. Max(S) \in S /\ \A y \in S : Max(S) >= y
  BY <1>7 DEF Max
<1> QED
  BY <1>8

LEMMA ScoreIsValue ==
  ASSUME NEW row, IsListing(row), NEW search
  PROVE  ScoreOf(row, search) \in Value
<1> DEFINE S == {row.scores[s] : s \in DOMAIN row.scores}
<1>1. IsFiniteSet(S) /\ S \subseteq Value
  BY ImageFinite DEF IsListing
<1>2. IsFiniteSet({NoValue} \union S)
  BY <1>1, FS_Singleton, FS_Union
<1>3. {NoValue} \union S \subseteq Value /\ Value \subseteq Int
  BY <1>1 DEF Value, NoValue
<1>4. Max({NoValue} \union S) \in Value
  <2> HIDE DEF S
  <2> QED
    BY <1>2, <1>3, MaxIs
<1>5. getCombinedScore(row) \in Value
  BY <1>4 DEF getCombinedScore
<1>6. getCombinedScoreForSearch(row, search) \in Value
  BY DEF getCombinedScoreForSearch, IsListing, Value
<1> QED
  BY <1>5, <1>6 DEF ScoreOf

LEMMA LimitIs == \A limit \in Int : clampLimit(limit) \in Nat \ {0}
<1> SUFFICES ASSUME NEW limit \in Int PROVE clampLimit(limit) \in Nat \ {0}
  OBVIOUS
<1>1. Max({limit, 1}) = IF limit >= 1 THEN limit ELSE 1
  BY DEF Max
<1>2. MAX_PAGE_LIMIT \in Nat \ {0}
  BY PageAssumption
<1> DEFINE m == Max({limit, 1})
<1> HIDE DEF m
<1>3. m \in Nat \ {0}
  BY <1>1 DEF m
<1>4. Min({m, MAX_PAGE_LIMIT}) \in {m, MAX_PAGE_LIMIT}
  BY <1>2, <1>3 DEF Min
<1> QED
  BY <1>2, <1>3, <1>4 DEF clampLimit, m
-----------------------------------------------------------------------------
(* Cursors: a row's place in a list, and the places after it. *)

Place == {p \in [sortValue : Nat, id : Nat, isNull : BOOLEAN] : p.isNull => p.sortValue = 0}

After(p, q, dir, nullsFirst) ==
  \/ p.isNull # q.isNull /\ (p.isNull <=> nullsFirst)
  \/ /\ p.isNull = q.isNull
     /\ \/ Ahead(q.sortValue, p.sortValue, dir)
        \/ q.sortValue = p.sortValue /\ Ahead(q.id, p.id, dir)

LEMMA AfterLine ==
  ASSUME NEW dir \in {"asc", "desc"}, NEW first \in BOOLEAN, NEW p \in Place, NEW q \in Place, NEW r \in Place
  PROVE  /\ ~After(p, p, dir, first)
         /\ p.id # q.id => After(p, q, dir, first) \/ After(q, p, dir, first)
         /\ After(p, q, dir, first) /\ After(q, r, dir, first) => After(p, r, dir, first)
         /\ After(p, q, dir, first) => ~After(q, p, dir, first)
  BY DEF Place, After, Ahead

LEMMA PlaceIs ==
  ASSUME NEW value \in Value, NEW id \in Nat
  PROVE  LET p == CompositeCursorPayload(value, id)
         IN  /\ p \in Place /\ p.id = id /\ (p.isNull <=> value = NoValue)
             /\ p.sortValue = IF value = NoValue THEN 0 ELSE value
  BY DEF Place, CompositeCursorPayload, Value, NoValue

LEMMA PlaceIsCursor == \A p \in Place : p # NoCursor
  BY DEF Place, NoCursor, NoValue

\* ORDER BY goes by the rows' places.
LEMMA OrderedByPlace ==
  ASSUME NEW a, NEW b, a.id \in Nat, b.id \in Nat, NEW av \in Value, NEW bv \in Value,
         NEW dir \in {"asc", "desc"}, NEW first \in BOOLEAN
  PROVE  Ordered(a, av, b, bv, dir, first)
           <=> After(CompositeCursorPayload(av, a.id), CompositeCursorPayload(bv, b.id), dir, first)
<1> DEFINE p == CompositeCursorPayload(av, a.id)
           q == CompositeCursorPayload(bv, b.id)
<1>1. /\ p.id = a.id /\ (p.isNull <=> av = NoValue) /\ p.sortValue = IF av = NoValue THEN 0 ELSE av
      /\ q.id = b.id /\ (q.isNull <=> bv = NoValue) /\ q.sortValue = IF bv = NoValue THEN 0 ELSE bv
      /\ p \in Place /\ q \in Place
  BY PlaceIs
<1> HIDE DEF p, q
<1>2. Ordered(a, av, b, bv, dir, first) <=> After(p, q, dir, first)
  BY <1>1 DEF Ordered, After, Ahead, Place, Value, NoValue
<1> QED
  BY <1>2 DEF p, q

\* Each list's filter asks for the places after the cursor's.
LEMMA ScoreFilterByPlace ==
  ASSUME NEW row, row.id \in Nat, NEW score \in Value, NEW cursor \in Place, NEW dir \in {"asc", "desc"}
  PROVE  buildScoreCursorFragment(row, score, cursor, dir)
           <=> After(cursor, CompositeCursorPayload(score, row.id), dir, FALSE)
<1> DEFINE p == CompositeCursorPayload(score, row.id)
<1>1. /\ p.id = row.id /\ (p.isNull <=> score = NoValue) /\ p.sortValue = IF score = NoValue THEN 0 ELSE score
      /\ p \in Place
  BY PlaceIs
<1> HIDE DEF p
<1>2. buildScoreCursorFragment(row, score, cursor, dir) <=> After(cursor, p, dir, FALSE)
  BY <1>1 DEF buildScoreCursorFragment, After, Ahead, Place, Value, NoValue
<1> QED
  BY <1>2 DEF p

LEMMA ColumnFilterByPlace ==
  ASSUME NEW row, IsListing(row), NEW column \in {"pricePence", "lastSeenAt"}, NEW cursor \in Place,
         column = "lastSeenAt" => ~cursor.isNull, NEW dir \in {"asc", "desc"}
  PROVE  buildCompositeCursorFilter(row, column, cursor, dir)
           <=> After(cursor, cursorPayloadOf(row, column), dir, dir = "desc")
<1>1. ColumnOf(row, column) \in Value /\ (column = "lastSeenAt" => ColumnOf(row, column) \in Nat) /\ row.id \in Nat
  BY DEF ColumnOf, IsListing, Value
<1> DEFINE value == ColumnOf(row, column)
           p == CompositeCursorPayload(value, row.id)
<1>2. /\ p.id = row.id /\ (p.isNull <=> value = NoValue) /\ p.sortValue = IF value = NoValue THEN 0 ELSE value
      /\ p \in Place
  BY <1>1, PlaceIs
<1> HIDE DEF p, value
<1>3. buildCompositeCursorFilter(row, column, cursor, dir) <=> After(cursor, p, dir, dir = "desc")
  <2>1. buildCompositeCursorFilter(row, column, cursor, dir) <=>
          IF column = "lastSeenAt"
          THEN Ahead(value, cursor.sortValue, dir) \/ (value = cursor.sortValue /\ Ahead(row.id, cursor.id, dir))
          ELSE IF cursor.isNull
          THEN (value = NoValue /\ Ahead(row.id, cursor.id, dir)) \/ (dir = "desc" /\ value # NoValue)
          ELSE \/ value # NoValue /\ Ahead(value, cursor.sortValue, dir)
               \/ dir = "asc" /\ value = NoValue
               \/ value = cursor.sortValue /\ Ahead(row.id, cursor.id, dir)
    BY DEF buildCompositeCursorFilter, value
  <2>2. value \in Value /\ (column = "lastSeenAt" => value \in Nat)
    BY <1>1 DEF value
  <2>3. CASE dir = "asc"
    BY <1>1, <1>2, <2>1, <2>2, <2>3 DEF After, Ahead, Place, Value, NoValue
  <2>4. CASE dir = "desc"
    BY <1>1, <1>2, <2>1, <2>2, <2>4 DEF After, Ahead, Place, Value, NoValue
  <2> QED
    BY <2>3, <2>4
<1> QED
  BY <1>3 DEF p, value, cursorPayloadOf

LEMMA AgentFilterByPlace ==
  ASSUME NEW agent, agent.id \in Nat, NEW cursor \in Place, cursor.isNull
  PROVE  buildAgentCursorFilter(agent, cursor) <=> After(cursor, encodeCursor(agent), "desc", FALSE)
<1> DEFINE p == CompositeCursorPayload(NoValue, agent.id)
<1>1. p.id = agent.id /\ p.isNull /\ p \in Place
  BY PlaceIs DEF Value
<1> HIDE DEF p
<1>2. buildAgentCursorFilter(agent, cursor) <=> After(cursor, p, "desc", FALSE)
  BY <1>1 DEF buildAgentCursorFilter, After, Ahead, Place
<1> QED
  BY <1>2 DEF p, encodeCursor
-----------------------------------------------------------------------------
(* One page of a list: of the agents, or of the listings in the order asked for. *)

Column(input) == sortColumnFor(input.sort)
Spot(what, input, row) ==
  IF what = "agents" THEN encodeCursor(row)
  ELSE IF Column(input) = "none" THEN CompositeCursorPayload(ScoreOf(row, input.search), row.id)
  ELSE cursorPayloadOf(row, Column(input))
Way(what, input) == IF what = "agents" THEN "desc" ELSE input.sort.dir
NullsFirst(what, input) == what # "agents" /\ Column(input) # "none" /\ input.sort.dir = "desc"
Behind(what, input, p, q) == After(p, q, Way(what, input), NullsFirst(what, input))

Wanted(what, input, row) ==
  IF what = "agents"
  THEN input.filter.outcodes # {} => row.covers \intersect input.filter.outcodes # {}
  ELSE buildWhere(row, toRepositoryFilter(input.filter))
IsRow(what, row) == IF what = "agents" THEN IsAgent(row) ELSE IsListing(row)

\* A cursor the list itself gave out.
IsCursor(what, input, p) ==
  /\ p \in Place
  /\ what = "agents" => p.isNull
  /\ what # "agents" /\ Column(input) = "lastSeenAt" => ~p.isNull

Due(what, input, table, cursor) ==
  {row \in table : /\ Wanted(what, input, row)
                   /\ cursor # NoCursor => Behind(what, input, cursor, Spot(what, input, row))}
DueOrder(what, input, due) ==
  {p \in due \X due : Behind(what, input, Spot(what, input, p[1]), Spot(what, input, p[2]))}
Spots(what, input, due) == [row \in due |-> Spot(what, input, row)]

LEMMA ColumnIs == \A input : Column(input) \in {"none", "pricePence", "lastSeenAt"}
  BY DEF Column, sortColumnFor

LEMMA SpotIs ==
  ASSUME NEW what \in {"listings", "agents"}, NEW input, NEW row, IsRow(what, row)
  PROVE  IsCursor(what, input, Spot(what, input, row)) /\ Spot(what, input, row).id = row.id /\ row.id \in Nat
<1>1. CASE what = "agents"
  <2>1. row.id \in Nat /\ NoValue \in Value
    BY <1>1 DEF IsRow, IsAgent, Value
  <2>2. Spot(what, input, row) = CompositeCursorPayload(NoValue, row.id)
    BY <1>1 DEF Spot, encodeCursor
  <2> QED
    BY <1>1, <2>1, <2>2, PlaceIs DEF IsCursor
<1>2. CASE what = "listings"
  <2> DEFINE value == IF Column(input) = "none" THEN ScoreOf(row, input.search) ELSE ColumnOf(row, Column(input))
  <2>1. IsListing(row) /\ row.id \in Nat
    BY <1>2 DEF IsRow, IsListing
  <2>2. value \in Value /\ (Column(input) = "lastSeenAt" => value \in Nat)
    BY <2>1, ScoreIsValue DEF ColumnOf, IsListing, Value
  <2>3. Spot(what, input, row) = CompositeCursorPayload(value, row.id)
    BY <1>2 DEF Spot, cursorPayloadOf
  <2> HIDE DEF value
  <2>4. Column(input) = "lastSeenAt" => value # NoValue
    BY <2>2 DEF NoValue
  <2> QED
    BY <1>2, <2>1, <2>2, <2>3, <2>4, PlaceIs DEF IsCursor
<1> QED
  BY <1>1, <1>2

LEMMA WayIs ==
  ASSUME NEW what \in {"listings", "agents"}, NEW input, what = "listings" => input.sort.dir \in {"asc", "desc"}
  PROVE  Way(what, input) \in {"asc", "desc"} /\ NullsFirst(what, input) \in BOOLEAN
  BY DEF Way, NullsFirst

LEMMA DueLine ==
  ASSUME NEW what \in {"listings", "agents"}, NEW input, what = "listings" => input.sort.dir \in {"asc", "desc"},
         NEW due, Keyed(due), \A row \in due : IsRow(what, row)
  PROVE  Line(due, DueOrder(what, input, due))
<1> DEFINE spot(row) == Spot(what, input, row)
           R == DueOrder(what, input, due)
<1>1. \A x, y \in due : <<x, y>> \in R <=> Behind(what, input, spot(x), spot(y))
  BY DEF DueOrder
<1>2. \A x \in due : spot(x) \in Place /\ spot(x).id = x.id
  BY SpotIs DEF IsCursor
<1>3. Way(what, input) \in {"asc", "desc"} /\ NullsFirst(what, input) \in BOOLEAN
  BY WayIs
<1> HIDE DEF R, spot
<1>4. ASSUME NEW x \in due PROVE <<x, x>> \notin R
  BY <1>1, <1>2, <1>3, AfterLine DEF Behind
<1>5. ASSUME NEW x \in due, NEW y \in due, x # y PROVE <<x, y>> \in R \/ <<y, x>> \in R
  <2>1. spot(x).id # spot(y).id
    BY <1>2, <1>5 DEF Keyed
  <2> QED
    BY <1>1, <1>2, <1>3, <2>1, AfterLine DEF Behind
<1>6. ASSUME NEW x \in due, NEW y \in due, NEW z \in due, <<x, y>> \in R, <<y, z>> \in R PROVE <<x, z>> \in R
  BY <1>1, <1>2, <1>3, <1>6, AfterLine DEF Behind
<1>7. Line(due, R)
  BY <1>4, <1>5, <1>6 DEF Line
<1> QED
  BY <1>7 DEF R

LEMMA AgentsPage ==
  ASSUME NEW table, IsFiniteSet(table), Keyed(table), \A row \in table : IsAgent(row),
         NEW outcodes, NEW cursor, cursor = NoCursor \/ (cursor \in Place /\ cursor.isNull), NEW limit \in Int,
         NEW input, input.filter.outcodes = outcodes
  PROVE  LET page == listAgents(table, outcodes, TRUE, cursor, limit)
             due == Due("agents", input, table, cursor)
         IN  IsPage(page.items, page.nextCursor, due, DueOrder("agents", input, due), clampLimit(limit),
                    Spots("agents", input, due))
<1> DEFINE due == Due("agents", input, table, cursor)
           found == {a \in table : /\ TRUE \/ ~a.optedOut
                                   /\ outcodes # {} => outcodes \cap a.covers # {}
                                   /\ cursor # NoCursor => buildAgentCursorFilter(a, cursor)}
           Before(a, b) == a.id > b.id
           page == listAgents(table, outcodes, TRUE, cursor, limit)
           n == clampLimit(limit)
           R == DueOrder("agents", input, due)
<1>1. \A a \in table : a.id \in Nat
  BY DEF IsAgent
<1>2. ASSUME NEW a \in table, cursor # NoCursor
      PROVE  buildAgentCursorFilter(a, cursor) <=> Behind("agents", input, cursor, Spot("agents", input, a))
  BY <1>1, <1>2, AgentFilterByPlace DEF Behind, Way, NullsFirst, Spot
<1>3. found = due
  BY <1>2 DEF Due, Wanted
<1>4. Order(due, Before) = R
  <2>1. \A a, b \in due : a.id > b.id <=> Behind("agents", input, Spot("agents", input, a), Spot("agents", input, b))
    <3> SUFFICES ASSUME NEW a \in due, NEW b \in due
                 PROVE  a.id > b.id <=> After(encodeCursor(a), encodeCursor(b), "desc", FALSE)
      BY DEF Behind, Way, NullsFirst, Spot
    <3>1. a.id \in Nat /\ b.id \in Nat
      BY <1>1 DEF Due
    <3>2. encodeCursor(a) \in Place /\ encodeCursor(a).isNull /\ encodeCursor(a).id = a.id
      <4>1. NoValue \in Value
        BY DEF Value
      <4> QED
        BY <3>1, <4>1, PlaceIs DEF encodeCursor
    <3> QED
      BY <3>1, <3>2, AgentFilterByPlace DEF buildAgentCursorFilter
  <2> HIDE DEF due
  <2> QED
    BY <2>1 DEF Order, DueOrder
<1>5. page = paginate(SubSeq(Sorted(due, R), 1, Min({n + 1, Cardinality(due)})), n, Spots("agents", input, due))
  <2>1. page = paginate(SubSeq(Sorted(found, Order(found, Before)), 1,
                               Min({n + 1, Cardinality(found)})), n, [a \in found |-> encodeCursor(a)])
    BY DEF listAgents, Take
  <2>2. [a \in due |-> encodeCursor(a)] = Spots("agents", input, due)
    BY DEF Spots, Spot
  <2> HIDE DEF found, due, Before, R, n
  <2> QED
    BY <1>3, <1>4, <2>1, <2>2
<1>6. IsFiniteSet(due) /\ Keyed(due) /\ \A row \in due : IsRow("agents", row)
  BY FS_Subset DEF Due, Keyed, IsRow
<1>7. Line(due, R)
  BY <1>6, DueLine
<1> HIDE DEF due, R, page
<1>8. IsPage(page.items, page.nextCursor, due, R, n, Spots("agents", input, due))
  BY <1>5, <1>6, <1>7, LimitIs, PageIs
<1> QED
  BY <1>8 DEF due, R, page

LEMMA ListingsPage ==
  ASSUME NEW table, IsFiniteSet(table), Keyed(table), \A row \in table : IsListing(row),
         NEW input, input.limit \in Int, input.sort.dir \in {"asc", "desc"},
         input.cursor = NoCursor \/ IsCursor("listings", input, input.cursor)
  PROVE  LET page == list(table, input)
             due == Due("listings", input, table, input.cursor)
         IN  IsPage(page.items, page.nextCursor, due, DueOrder("listings", input, due), clampLimit(input.limit),
                    Spots("listings", input, due))
<1> DEFINE due == Due("listings", input, table, input.cursor)
           page == list(table, input)
           n == clampLimit(input.limit)
           R == DueOrder("listings", input, due)
           dir == input.sort.dir
           column == Column(input)
           filter == toRepositoryFilter(input.filter)
           spots == Spots("listings", input, due)
<1>1. IsFiniteSet(due) /\ Keyed(due) /\ (\A row \in due : IsRow("listings", row)) /\ due \subseteq table
  BY FS_Subset DEF Due, Keyed, IsRow
<1>2. Line(due, R)
  BY <1>1, DueLine
<1>3. page = paginate(SubSeq(Sorted(due, R), 1, Min({n + 1, Cardinality(due)})), n, spots)
  <2>1. CASE column = "none"
    <3> DEFINE found == {row \in table :
                           /\ buildScoreFilterFragments(row, filter)
                           /\ input.cursor # NoCursor =>
                                buildScoreCursorFragment(row, ScoreOf(row, input.search), input.cursor, dir)}
               Before(a, b) == Ordered(a, ScoreOf(a, input.search), b, ScoreOf(b, input.search), dir, FALSE)
    <3>1. page = paginate(SubSeq(Sorted(found, Order(found, Before)), 1, Min({n + 1, Cardinality(found)})), n,
                          [row \in found |-> CompositeCursorPayload(ScoreOf(row, input.search), row.id)])
      BY <2>1 DEF list, listByCombinedScore, Take, Column
    <3>2. \A row : Spot("listings", input, row) = CompositeCursorPayload(ScoreOf(row, input.search), row.id)
      BY <2>1 DEF Spot
    <3>3. \A p, q : Behind("listings", input, p, q) <=> After(p, q, dir, FALSE)
      BY <2>1 DEF Behind, Way, NullsFirst
    <3>4. \A row \in table : row.id \in Nat /\ ScoreOf(row, input.search) \in Value
      BY ScoreIsValue DEF IsListing
    <3>5. ASSUME NEW row \in table, input.cursor # NoCursor
          PROVE  buildScoreCursorFragment(row, ScoreOf(row, input.search), input.cursor, dir)
                   <=> Behind("listings", input, input.cursor, Spot("listings", input, row))
      BY <3>2, <3>3, <3>4, <3>5, ScoreFilterByPlace DEF IsCursor
    <3>6. found = due
      BY <3>5 DEF Due, Wanted, buildScoreFilterFragments
    <3>7. \A a, b \in due : Before(a, b) <=> Behind("listings", input, Spot("listings", input, a), Spot("listings", input, b))
      <4> SUFFICES ASSUME NEW a \in due, NEW b \in due
                   PROVE  Before(a, b) <=> Behind("listings", input, Spot("listings", input, a), Spot("listings", input, b))
        OBVIOUS
      <4>1. /\ a.id \in Nat /\ b.id \in Nat /\ dir \in {"asc", "desc"} /\ (FALSE) \in BOOLEAN
            /\ ScoreOf(a, input.search) \in Value /\ ScoreOf(b, input.search) \in Value
        BY <1>1, <3>4
      <4>2. Before(a, b) <=> After(CompositeCursorPayload(ScoreOf(a, input.search), a.id),
                                   CompositeCursorPayload(ScoreOf(b, input.search), b.id), dir, FALSE)
        BY <4>1, OrderedByPlace
      <4> QED
        BY <3>2, <3>3, <4>2
    <3> HIDE DEF due, found, Before, n, filter
    <3>8. Order(due, Before) = R
      BY <3>7 DEF Order, DueOrder
    <3>9. [row \in due |-> CompositeCursorPayload(ScoreOf(row, input.search), row.id)] = spots
      BY <3>2 DEF Spots
    <3> QED
      BY <3>1, <3>6, <3>8, <3>9
  <2>2. CASE column # "none"
    <3> DEFINE found == {row \in table :
                           /\ buildWhere(row, filter)
                           /\ input.cursor # NoCursor =>
                                buildCompositeCursorFilter(row, column, input.cursor, dir)}
               Before(a, b) == Ordered(a, ColumnOf(a, column), b, ColumnOf(b, column), dir, dir = "desc")
    <3>1. page = paginate(SubSeq(Sorted(found, Order(found, Before)), 1, Min({n + 1, Cardinality(found)})), n,
                          [row \in found |-> cursorPayloadOf(row, column)])
      BY <2>2 DEF list, Take, Column
    <3>2. \A row : Spot("listings", input, row) = cursorPayloadOf(row, column)
      BY <2>2 DEF Spot
    <3>3. \A p, q : Behind("listings", input, p, q) <=> After(p, q, dir, dir = "desc")
      BY <2>2 DEF Behind, Way, NullsFirst
    <3>4. \A row \in table : row.id \in Nat /\ ColumnOf(row, column) \in Value
      BY DEF IsListing, ColumnOf, Value
    <3>0. column \in {"pricePence", "lastSeenAt"}
      BY <2>2, ColumnIs
    <3>5. ASSUME NEW row \in table, input.cursor # NoCursor
          PROVE  buildCompositeCursorFilter(row, column, input.cursor, dir)
                   <=> Behind("listings", input, input.cursor, Spot("listings", input, row))
      BY <3>0, <3>2, <3>3, <3>5, ColumnFilterByPlace DEF IsCursor
    <3>6. found = due
      BY <3>5 DEF Due, Wanted
    <3>7. \A a, b \in due : Before(a, b) <=> Behind("listings", input, Spot("listings", input, a), Spot("listings", input, b))
      <4> SUFFICES ASSUME NEW a \in due, NEW b \in due
                   PROVE  Before(a, b) <=> Behind("listings", input, Spot("listings", input, a), Spot("listings", input, b))
        OBVIOUS
      <4>1. /\ a.id \in Nat /\ b.id \in Nat /\ dir \in {"asc", "desc"} /\ (dir = "desc") \in BOOLEAN
            /\ ColumnOf(a, column) \in Value /\ ColumnOf(b, column) \in Value
        BY <1>1, <3>4
      <4>2. Before(a, b) <=> After(CompositeCursorPayload(ColumnOf(a, column), a.id),
                                   CompositeCursorPayload(ColumnOf(b, column), b.id), dir, dir = "desc")
        BY <4>1, OrderedByPlace
      <4> QED
        BY <3>2, <3>3, <4>2 DEF cursorPayloadOf
    <3> HIDE DEF due, found, Before, n, filter
    <3>8. Order(due, Before) = R
      BY <3>7 DEF Order, DueOrder
    <3>9. [row \in due |-> cursorPayloadOf(row, column)] = spots
      BY <3>2 DEF Spots
    <3> QED
      BY <3>1, <3>6, <3>8, <3>9
  <2> QED
    BY <2>1, <2>2
<1> HIDE DEF due, R, page, spots
<1>4. IsPage(page.items, page.nextCursor, due, R, n, spots)
  BY <1>1, <1>2, <1>3, LimitIs, PageIs
<1> QED
  BY <1>4 DEF due, R, page, spots
-----------------------------------------------------------------------------
(* The changes on their way *)

IsSeq(s) == \E n \in Nat : DOMAIN s = 1..n /\ s = [i \in 1..n |-> s[i]]

Kinds == Overlay \union {"create", "update", "setStatus", "remove", "erase", "launch", "approve", "refresh"}
IsRequest(r) == DOMAIN r = {"kind", "on", "what", "calls"} /\ r.kind \in Kinds
Same(r, q) == r.kind = q.kind /\ r.on = q.on /\ r.what = q.what
Requests(reqs) == IsSeq(reqs) /\ \A i \in DOMAIN reqs : IsRequest(reqs[i])

LEMMA RequestIs ==
  ASSUME NEW kind \in Kinds, NEW on, NEW what
  PROVE  LET r == Request(kind, on, what)
         IN  IsRequest(r) /\ r.kind = kind /\ r.on = on /\ r.what = what
  BY DEF Request, IsRequest

LEMMA MutedIs ==
  ASSUME NEW reqs, Requests(reqs), NEW kinds
  PROVE  /\ Requests(Muted(reqs, kinds)) /\ DOMAIN Muted(reqs, kinds) = DOMAIN reqs
         /\ \A i \in DOMAIN reqs : Same(Muted(reqs, kinds)[i], reqs[i])
<1> DEFINE m == Muted(reqs, kinds)
           one(i) == IF reqs[i].kind \in kinds THEN [reqs[i] EXCEPT !.calls = FALSE] ELSE reqs[i]
<1>1. m = [i \in DOMAIN reqs |-> one(i)]
  BY DEF Muted
<1>2. \A i \in DOMAIN reqs : IsRequest(one(i)) /\ Same(one(i), reqs[i])
  BY DEF Requests, IsRequest, Same
<1>3. PICK n \in Nat : DOMAIN reqs = 1..n
  BY DEF Requests, IsSeq
<1> HIDE DEF m, one
<1>4. DOMAIN m = 1..n /\ (\A i \in 1..n : m[i] = one(i)) /\ m = [i \in 1..n |-> m[i]]
  BY <1>1, <1>3
<1>5. IsSeq(m)
  BY <1>4 DEF IsSeq
<1>6. Requests(m) /\ DOMAIN m = DOMAIN reqs /\ \A i \in DOMAIN reqs : Same(m[i], reqs[i])
  BY <1>2, <1>3, <1>4, <1>5 DEF Requests
<1> QED
  BY <1>6 DEF m

LEMMA SeqOver == \A s : IsSeq(s) <=> s \in Seq({s[i] : i \in DOMAIN s})
<1> SUFFICES ASSUME NEW s PROVE IsSeq(s) <=> s \in Seq({s[i] : i \in DOMAIN s})
  OBVIOUS
<1> DEFINE S == {s[i] : i \in DOMAIN s}
<1>1. ASSUME IsSeq(s) PROVE s \in Seq(S)
  <2>1. PICK n \in Nat : DOMAIN s = 1..n /\ s = [i \in 1..n |-> s[i]]
    BY <1>1 DEF IsSeq
  <2>2. \A i \in 1..n : s[i] \in S
    BY <2>1
  <2> HIDE DEF S
  <2>3. s \in [1..n -> S]
    BY <2>1, <2>2
  <2> QED
    BY <2>3
<1>2. ASSUME s \in Seq(S) PROVE IsSeq(s)
  <2> HIDE DEF S
  <2>1. Len(s) \in Nat /\ DOMAIN s = 1..Len(s) /\ s = [i \in 1..Len(s) |-> s[i]]
    BY <1>2
  <2> QED
    BY <2>1 DEF IsSeq
<1> QED
  BY <1>1, <1>2

LEMMA SeqIsSeq ==
  ASSUME NEW S, NEW s \in Seq(S)
  PROVE  IsSeq(s) /\ Len(s) \in Nat /\ DOMAIN s = 1..Len(s) /\ \A i \in DOMAIN s : s[i] \in S
<1>1. Len(s) \in Nat /\ DOMAIN s = 1..Len(s) /\ s = [i \in 1..Len(s) |-> s[i]]
  OBVIOUS
<1>2. \A i \in 1..Len(s) : s[i] \in S
  OBVIOUS
<1> QED
  BY <1>1, <1>2 DEF IsSeq

LEMMA SentIs ==
  ASSUME NEW reqs, Requests(reqs), NEW request, IsRequest(request)
  PROVE  /\ Requests(Sent(reqs, request))
         /\ \A i \in DOMAIN Sent(reqs, request) :
              \/ Sent(reqs, request)[i] = request
              \/ \E j \in DOMAIN reqs : Same(Sent(reqs, request)[i], reqs[j])
<1> DEFINE m == Muted(reqs, {request.kind} \intersect Overlay)
           S == {m[i] : i \in DOMAIN m} \union {request}
           t == Append(m, request)
<1>1. Requests(m) /\ DOMAIN m = DOMAIN reqs /\ \A i \in DOMAIN reqs : Same(m[i], reqs[i])
  BY MutedIs
<1> HIDE DEF m
<1>2. m \in Seq(S) /\ request \in S
  <2>1. m \in Seq({m[i] : i \in DOMAIN m})
    BY <1>1, SeqOver DEF Requests
  <2>2. {m[i] : i \in DOMAIN m} \subseteq S
    OBVIOUS
  <2> DEFINE U == {m[i] : i \in DOMAIN m}
  <2> HIDE DEF S, U
  <2>3. m \in Seq(U) /\ U \subseteq S
    BY <2>1, <2>2 DEF U
  <2>4. m \in Seq(S)
    BY <2>3
  <2> QED
    BY <2>4 DEF S
<1> HIDE DEF S
<1>3. /\ t \in Seq(S) /\ DOMAIN t = 1..(Len(m) + 1) /\ DOMAIN m = 1..Len(m) /\ Len(m) \in Nat
      /\ t[Len(m) + 1] = request /\ \A i \in 1..Len(m) : t[i] = m[i]
  BY <1>2
<1> HIDE DEF t
<1>4. \A i \in DOMAIN t : t[i] = request \/ (i \in DOMAIN m /\ t[i] = m[i])
  BY <1>3
<1>5. IsSeq(t)
  BY <1>3, SeqIsSeq
<1>6. Requests(t)
  BY <1>1, <1>4, <1>5 DEF Requests
<1>7. Sent(reqs, request) = t
  BY DEF Sent, t, m
<1> QED
  BY <1>1, <1>4, <1>6, <1>7

Without(reqs, i) == SubSeq(reqs, 1, i - 1) \o SubSeq(reqs, i + 1, Len(reqs))

LEMMA WithoutIs ==
  ASSUME NEW reqs, IsSeq(reqs), NEW i \in DOMAIN reqs
  PROVE  /\ IsSeq(Without(reqs, i))
         /\ \A k \in DOMAIN Without(reqs, i) : \E j \in DOMAIN reqs : Without(reqs, i)[k] = reqs[j]
<1> DEFINE t == Without(reqs, i)
           S == {reqs[j] : j \in DOMAIN reqs}
<1>1. reqs \in Seq(S)
  BY SeqOver
<1>2. \A x \in S : \E j \in DOMAIN reqs : x = reqs[j]
  OBVIOUS
<1> HIDE DEF S
<1>3. i \in 1..Len(reqs) /\ Len(reqs) \in Nat
  BY <1>1
<1>4. SubSeq(reqs, 1, i - 1) \in Seq(S) /\ SubSeq(reqs, i + 1, Len(reqs)) \in Seq(S)
  <2>1. /\ i - 1 \in Int /\ i + 1 \in Int /\ Len(reqs) \in Int /\ 1 \in Int
        /\ \A k \in 1..(i - 1) : k \in 1..Len(reqs)
        /\ \A k \in (i + 1)..Len(reqs) : k \in 1..Len(reqs)
    BY <1>3
  <2>2. \A k \in 1..Len(reqs) : reqs[k] \in S
    BY <1>1
  <2> QED
    BY <2>1, <2>2, SubSeqProperties
<1>5. t \in Seq(S)
  BY <1>4 DEF Without
<1> HIDE DEF t
<1>6. IsSeq(t) /\ \A k \in DOMAIN t : \E j \in DOMAIN reqs : t[k] = reqs[j]
  BY <1>2, <1>5, SeqIsSeq
<1> QED
  BY <1>6 DEF t

Joined(reqs, more) == reqs \o more

LEMMA JoinedIs ==
  ASSUME NEW reqs, IsSeq(reqs), NEW more, IsSeq(more)
  PROVE  /\ IsSeq(Joined(reqs, more))
         /\ \A k \in DOMAIN Joined(reqs, more) : \/ \E j \in DOMAIN reqs : Joined(reqs, more)[k] = reqs[j]
                                                \/ \E j \in DOMAIN more : Joined(reqs, more)[k] = more[j]
<1> DEFINE S == {reqs[j] : j \in DOMAIN reqs}
           T == {more[j] : j \in DOMAIN more}
<1>1. reqs \in Seq(S) /\ more \in Seq(T)
  BY SeqOver
<1>2. (\A x \in S : \E j \in DOMAIN reqs : x = reqs[j]) /\ (\A x \in T : \E j \in DOMAIN more : x = more[j])
  OBVIOUS
<1> HIDE DEF S, T
<1>3. reqs \in Seq(S \union T) /\ more \in Seq(S \union T)
  BY <1>1
<1> DEFINE c == reqs \o more
<1>4. c \in Seq(S \union T)
  BY <1>3
<1> HIDE DEF c
<1>5. IsSeq(c) /\ \A k \in DOMAIN c : c[k] \in S \/ c[k] \in T
  BY <1>4, SeqIsSeq
<1>6. \A k \in DOMAIN c : (\E j \in DOMAIN reqs : c[k] = reqs[j]) \/ (\E j \in DOMAIN more : c[k] = more[j])
  BY <1>2, <1>5
<1> QED
  BY <1>5, <1>6 DEF c, Joined
-----------------------------------------------------------------------------
(* The shape of the state *)

AgentIds == {a.id : a \in FirstAgents \union Sourced}

Tables ==
  /\ errand \in Errands
  /\ IsFiniteSet(rows) /\ Keyed(rows) /\ \A row \in rows : IsListing(row)
  /\ Keyed(agents) /\ \A a \in agents : IsAgent(a) /\ a.id \in AgentIds

Shapes ==
  /\ DOMAIN cache = Queries /\ \A q \in Queries : DOMAIN cache[q] = {"data", "status", "fresh"}
  /\ \A n \in {"list", "saved", "dismissed"} : IsFiniteSet(Data(Q(n)))
  /\ DOMAIN dialog = {"kind", "search", "form", "checked", "shown", "seeded", "sent"}
  /\ DOMAIN shell = {"path", "back", "searchFilter", "agentFilter", "sourceFilter"}
  /\ DOMAIN queue = {"discover", "send", "scrape"}
  /\ DOMAIN walk = {"what", "input", "cursor", "seen", "steady", "done"}
  /\ Requests(requests)

LEMMA KeyedFinite ==
  ASSUME NEW table, Keyed(table), NEW ids, IsFiniteSet(ids), \A x \in table : x.id \in ids
  PROVE  IsFiniteSet(table) /\ Cardinality(table) <= Cardinality(ids)
<1> DEFINE f == [x \in table |-> x.id]
<1>1. f \in Injection(table, ids)
  BY DEF Keyed, Injection, IsInjective
<1> QED
  BY <1>1, FS_Injection

LEMMA AgentsFinite == Tables => IsFiniteSet(agents) /\ Cardinality(agents) <= MAX_PAGES * MAX_PAGE_LIMIT
<1> SUFFICES ASSUME Tables PROVE IsFiniteSet(agents) /\ Cardinality(agents) <= MAX_PAGES * MAX_PAGE_LIMIT
  OBVIOUS
<1>1. IsFiniteSet(AgentIds) /\ Cardinality(AgentIds) <= MAX_PAGES * MAX_PAGE_LIMIT
  BY AgentAssumption DEF AgentIds
<1>2. Keyed(agents) /\ \A a \in agents : a.id \in AgentIds
  BY DEF Tables
<1>3. IsFiniteSet(agents) /\ Cardinality(agents) <= Cardinality(AgentIds)
  BY <1>1, <1>2, KeyedFinite
<1>4. Cardinality(agents) \in Nat /\ Cardinality(AgentIds) \in Nat /\ MAX_PAGES * MAX_PAGE_LIMIT \in Nat
  BY <1>1, <1>3, FS_CardinalityType, PageAssumption
<1> QED
  BY <1>1, <1>3, <1>4

LEMMA ScoresFinite ==
  ASSUME NEW table, IsFiniteSet(table), NEW search PROVE IsFiniteSet(attachScores(table, search))
<1> DEFINE f == [row \in table |->
   [id |-> row.id, address |-> row.address, postcode |-> row.postcode, outcode |-> row.outcode,
    price |-> row.price, bedrooms |-> row.bedrooms, seen |-> row.seen, source |-> row.source,
    link |-> row.link, agency |-> row.agency, combinedScore |-> ScoreOf(row, search)]]
<1>1. attachScores(table, search) = {f[row] : row \in table}
  BY DEF attachScores
<1>2. DOMAIN f = table
  OBVIOUS
<1> HIDE DEF f
<1> QED
  BY <1>1, <1>2, ImageFinite

LEMMA RangeFinite == ASSUME NEW f, IsFiniteSet(DOMAIN f) PROVE IsFiniteSet(Range(f))
  BY ImageFinite DEF Range

LEMMA ListInput ==
  /\ listQueryInput.limit = MAX_PAGE_LIMIT /\ listQueryInput.cursor = NoCursor
  /\ listQueryInput.sort = [by |-> "combinedScore", dir |-> "desc"]
  BY DEF listQueryInput

LEMMA ListFinite == Tables => IsFiniteSet(Range(list(rows, listQueryInput).items))
<1> SUFFICES ASSUME Tables PROVE IsFiniteSet(Range(list(rows, listQueryInput).items))
  OBVIOUS
<1> DEFINE input == listQueryInput
           items == list(rows, input).items
<1>1. input.limit \in Int /\ input.sort.dir \in {"asc", "desc"} /\ input.cursor = NoCursor
  BY ListInput, PageAssumption
<1>2. IsFiniteSet(rows) /\ Keyed(rows) /\ \A row \in rows : IsListing(row)
  BY DEF Tables
<1> HIDE DEF input
<1>3. \E n \in Nat : DOMAIN items = 1..n
  <2> DEFINE due == Due("listings", input, rows, input.cursor)
  <2>1. IsPage(items, list(rows, input).nextCursor, due, DueOrder("listings", input, due),
               clampLimit(input.limit), Spots("listings", input, due))
    BY <1>1, <1>2, ListingsPage
  <2> HIDE DEF items, due
  <2> QED
    BY <2>1 DEF IsPage
<1> HIDE DEF items
<1>4. IsFiniteSet(DOMAIN items)
  BY <1>3, FS_Interval
<1> QED
  BY <1>4, RangeFinite DEF items, input

LEMMA AnswerFinite ==
  ASSUME Tables, NEW n \in {"list", "saved", "dismissed"} PROVE IsFiniteSet(Answer(Q(n)))
<1>1. CASE n = "list"
  BY <1>1, ListFinite, ScoresFinite DEF Answer, Q
<1>2. \A ids : IsFiniteSet(hydrate(rows, ids))
  <2> SUFFICES ASSUME NEW ids PROVE IsFiniteSet(hydrate(rows, ids))
    OBVIOUS
  <2>1. {row \in rows : row.id \in ids} \in SUBSET rows /\ IsFiniteSet(rows)
    BY DEF Tables
  <2>2. IsFiniteSet({row \in rows : row.id \in ids})
    BY <2>1, FS_Subset
  <2> QED
    BY <2>2, ScoresFinite DEF hydrate
<1>3. CASE n = "saved"
  BY <1>2, <1>3 DEF Answer, Q
<1>4. CASE n = "dismissed"
  BY <1>2, <1>4 DEF Answer, Q
<1> QED
  BY <1>1, <1>3, <1>4

LEMMA IdsFinite == ASSUME NEW table, IsFiniteSet(table) PROVE IsFiniteSet(Ids(table))
<1> DEFINE f == [row \in table |-> row.id]
<1>1. Ids(table) = {f[row] : row \in table} /\ DOMAIN f = table
  BY DEF Ids
<1> HIDE DEF f
<1> QED
  BY <1>1, ImageFinite

LEMMA ViewFinite == ASSUME NEW items, IsFiniteSet(items) PROVE IsFiniteSet(ViewRows(items))
<1> DEFINE f == [item \in items |-> toViewRow(item, Now)]
<1>1. ViewRows(items) = {f[item] : item \in items} /\ DOMAIN f = items
  BY DEF ViewRows
<1> HIDE DEF f
<1> QED
  BY <1>1, ImageFinite

LEMMA UnderFinite ==
  ASSUME NEW table, IsFiniteSet(table), NEW others, IsFiniteSet(others) PROVE IsFiniteSet(Under(table, others))
<1>1. {row \in others : row.id \notin Ids(table)} \in SUBSET others
  OBVIOUS
<1>2. IsFiniteSet({row \in others : row.id \notin Ids(table)})
  BY <1>1, FS_Subset
<1> QED
  BY <1>2, FS_Union DEF Under

LEMMA ScreenRowsFinite == Shapes => IsFiniteSet(ScreenRows)
<1> SUFFICES ASSUME Shapes PROVE IsFiniteSet(ScreenRows)
  OBVIOUS
<1>1. IsFiniteSet(Data(Q("list"))) /\ IsFiniteSet(Data(Q("saved"))) /\ IsFiniteSet(Data(Q("dismissed")))
  BY DEF Shapes
<1>2. IsFiniteSet(Under(ViewRows(Data(Q("dismissed"))), ViewRows(Data(Q("saved")))))
  BY <1>1, ViewFinite, UnderFinite
<1> QED
  BY <1>1, <1>2, ViewFinite, UnderFinite DEF ScreenRows, byId

LEMMA BarFinite ==
  ASSUME NEW table, IsFiniteSet(table), NEW interested, NEW dismissed
  PROVE  IsFiniteSet(InterestBar(table, interested, dismissed))
<1>1. interestedRows(table, interested, dismissed) \in SUBSET table
  BY DEF interestedRows
<1> QED
  BY <1>1, FS_Subset, IdsFinite DEF InterestBar
-----------------------------------------------------------------------------
(* What a step does to the changes on their way: it keeps some, and asks for some. *)

Asked(r) ==
  \/ r.kind \in {"unsave", "restore", "setStatus", "remove", "erase", "refresh", "launch"}
  \/ r.kind \in {"save", "dismiss"} /\ r.on \in Homes
  \/ r.kind \in {"create", "update"} /\ dialog.kind = "edit" /\ r.what = dialog.form
  \/ /\ r.kind = "approve" /\ dialog.kind = "launch" /\ r.on = dialog.search /\ r.what = dialog.checked
     /\ {<<dialog.search, a>> : a \in dialog.shown \intersect dialog.checked} \subseteq consent'

Carried(r) == \E j \in DOMAIN requests : Same(r, requests[j])
RequestsMove == Requests(requests') /\ \A i \in DOMAIN requests' : Carried(requests'[i]) \/ Asked(requests'[i])

LEMMA KindsAre ==
  /\ Overlay \subseteq Kinds /\ {"save", "unsave", "dismiss", "restore"} \subseteq Overlay
  /\ {"create", "update", "setStatus", "remove", "erase", "launch", "approve", "refresh"} \subseteq Kinds
  BY DEF Kinds, Overlay

LEMMA RequestsStay == ASSUME Shapes, UNCHANGED requests PROVE RequestsMove
  BY DEF Shapes, RequestsMove, Carried, Same

LEMMA RequestsMuted ==
  ASSUME Shapes, NEW kinds, requests' = Muted(requests, kinds) PROVE RequestsMove
<1>1. Requests(requests)
  BY DEF Shapes
<1> QED
  BY <1>1, MutedIs DEF RequestsMove, Carried

LEMMA RequestsSent ==
  ASSUME Shapes, NEW kind \in Kinds, NEW on, NEW what, requests' = Sent(requests, Request(kind, on, what)),
         \A r : r.kind = kind /\ r.on = on /\ r.what = what => Asked(r)
  PROVE  RequestsMove
<1> DEFINE r == Request(kind, on, what)
<1>1. IsRequest(r) /\ r.kind = kind /\ r.on = on /\ r.what = what
  BY RequestIs
<1>2. Asked(r)
  BY <1>1
<1> HIDE DEF r
<1>3. Requests(requests) /\ requests' = Sent(requests, r)
  BY DEF Shapes, r
<1>4. /\ Requests(requests')
      /\ \A i \in DOMAIN requests' : requests'[i] = r \/ \E j \in DOMAIN requests : Same(requests'[i], requests[j])
  BY <1>1, <1>3, SentIs
<1> QED
  BY <1>2, <1>4 DEF RequestsMove, Carried

LEMMA MarksMove == ASSUME Shapes, Marks PROVE RequestsMove
<1>1. ASSUME NEW home \in Homes, toggleInterest(home) PROVE RequestsMove
  <2> DEFINE kind == IF home \in screen.interested THEN "unsave" ELSE "save"
  <2>1. requests' = Sent(requests, Request(kind, home, {})) /\ kind \in {"save", "unsave"} /\ kind \in Overlay
    BY <1>1, KindsAre DEF toggleInterest
  <2> HIDE DEF kind
  <2> QED
    BY <2>1, KindsAre, RequestsSent DEF Asked
<1>2. ASSUME NEW home \in Homes, dismiss(home) PROVE RequestsMove
  BY <1>2, KindsAre, RequestsSent DEF Asked, dismiss
<1>3. ASSUME NEW home, restore(home) PROVE RequestsMove
  BY <1>3, KindsAre, RequestsSent DEF Asked, restore
<1> QED
  BY <1>1, <1>2, <1>3 DEF Marks

LEMMA RequestsJoined ==
  ASSUME Shapes, NEW more, IsSeq(more), \A i \in DOMAIN more : IsRequest(more[i]) /\ more[i].kind = "unsave",
         requests' = Muted(Joined(requests, more), {"unsave"})
  PROVE  RequestsMove
<1> DEFINE joined == Joined(requests, more)
<1>1. Requests(requests) /\ IsSeq(requests)
  BY DEF Shapes, Requests
<1>2. IsSeq(joined) /\ \A k \in DOMAIN joined : \/ \E j \in DOMAIN requests : joined[k] = requests[j]
                                                \/ \E j \in DOMAIN more : joined[k] = more[j]
  BY <1>1, JoinedIs
<1> HIDE DEF joined
<1>3. Requests(joined)
  BY <1>1, <1>2 DEF Requests
<1>4. Requests(requests') /\ DOMAIN requests' = DOMAIN joined /\ \A i \in DOMAIN joined : Same(requests'[i], joined[i])
  BY <1>3, MutedIs DEF joined
<1>5. \A i \in DOMAIN joined : Carried(joined[i]) \/ joined[i].kind = "unsave"
  BY <1>2 DEF Carried, Same
<1>6. \A i \in DOMAIN requests' : Carried(requests'[i]) \/ Asked(requests'[i])
  BY <1>4, <1>5, KindsAre DEF Carried, Same, Asked
<1> QED
  BY <1>4, <1>6 DEF RequestsMove

LEMMA ClearMoves == ASSUME Shapes, clearShownInterest PROVE RequestsMove
<1> DEFINE shown == InterestBar(ScreenRows, screen.interested, screen.dismissed)
           n == Cardinality(shown)
           more == [i \in 1..n |-> Request("unsave", Ascending(shown)[i], {})]
<1>1. n \in Nat
  BY ScreenRowsFinite, BarFinite, FS_CardinalityType
<1>2. requests' = Muted(Joined(requests, more), {"unsave"})
  BY DEF clearShownInterest, Joined
<1> HIDE DEF shown, n
<1>3. \A i \in 1..n : IsRequest(more[i]) /\ more[i].kind = "unsave"
  BY KindsAre, RequestIs
<1>4. IsSeq(more) /\ DOMAIN more = 1..n
  BY <1>1 DEF IsSeq
<1> HIDE DEF more
<1> QED
  BY <1>2, <1>3, <1>4, RequestsJoined

LEMMA DeskMoves == ASSUME Shapes, Desk PROVE RequestsMove
<1>1. CASE OpenEditor \/ EditForm \/ AskRemove \/ AgentRow
  <2>1. OpenEditor => UNCHANGED requests
    BY DEF OpenEditor
  <2>2. EditForm => UNCHANGED requests
    BY DEF EditForm
  <2>3. AskRemove => UNCHANGED requests
    BY DEF AskRemove
  <2>4. AgentRow => UNCHANGED requests
    BY DEF AgentRow
  <2> QED
    BY <1>1, <2>1, <2>2, <2>3, <2>4, RequestsStay
<1>2. CASE CloseDialog
  BY <1>2, RequestsMuted DEF CloseDialog
<1>3. CASE SaveForm
  <2> DEFINE kind == IF dialog.form.id = NoSearch THEN "create" ELSE "update"
  <2>1. dialog.kind = "edit" /\ requests' = Sent(requests, Request(kind, dialog.form.id, dialog.form))
    BY <1>3 DEF SaveForm
  <2>2. kind \in {"create", "update"} /\ kind \in Kinds
    BY KindsAre
  <2> HIDE DEF kind
  <2>3. \A r : r.kind = kind /\ r.what = dialog.form => Asked(r)
    BY <2>1, <2>2 DEF Asked
  <2> QED
    BY <2>1, <2>2, <2>3, RequestsSent
<1>4. CASE requestToggle \/ ConfirmPause
  <2>1. UNCHANGED requests \/ \E on, what : requests' = Sent(requests, Request("setStatus", on, what))
    BY <1>4 DEF requestToggle, ConfirmPause
  <2>2. \A r : r.kind = "setStatus" => Asked(r)
    BY DEF Asked
  <2>3. ASSUME NEW on, NEW what, requests' = Sent(requests, Request("setStatus", on, what)) PROVE RequestsMove
    BY <2>2, <2>3, KindsAre, RequestsSent
  <2> QED
    BY <2>1, <2>3, RequestsStay
<1>5. CASE ConfirmRemove
  BY <1>5, KindsAre, RequestsSent DEF ConfirmRemove, Asked
<1>6. CASE RemoveAgent
  BY <1>6, KindsAre, RequestsSent DEF RemoveAgent, Asked
<1>7. CASE RefreshSources
  BY <1>7, KindsAre, RequestsSent DEF RefreshSources, Asked
<1>8. CASE LaunchModal
  BY <1>8, KindsAre, RequestsSent DEF LaunchModal, Asked
<1>9. CASE Approve
  <2>1. dialog.kind = "launch" /\ requests' = Sent(requests, Request("approve", dialog.search, dialog.checked))
        /\ {<<dialog.search, a>> : a \in dialog.shown \intersect dialog.checked} \subseteq consent'
    BY <1>9 DEF Approve
  <2>2. \A r : r.kind = "approve" /\ r.on = dialog.search /\ r.what = dialog.checked => Asked(r)
    BY <2>1 DEF Asked
  <2> QED
    BY <2>1, <2>2, KindsAre, RequestsSent
<1> QED
  BY <1>1, <1>2, <1>3, <1>4, <1>5, <1>6, <1>7, <1>8, <1>9 DEF Desk

LEMMA NavigateIs == Navigate => ClearLens \/ \E to : Visit(to) /\ DOMAIN to = DOMAIN shell
<1> DEFINE Somewhere == \E to : Visit(to) /\ DOMAIN to = DOMAIN shell
<1>0. ASSUME NEW to, Visit(to), DOMAIN to = DOMAIN shell PROVE Somewhere
  BY <1>0
<1> HIDE DEF Somewhere
<1>1. \A path : goTab(path) => Somewhere
  BY <1>0 DEF goTab, To
<1>2. \A search : viewSearchHomes(search) => Somewhere
  BY <1>0 DEF viewSearchHomes, To
<1>3. \A search : viewAgents(search) => Somewhere
  BY <1>0 DEF viewAgents, To
<1>4. ASSUME NEW source, viewSourceLots(source) PROVE Somewhere
  <2>1. Visit([To("/listings") EXCEPT !.searchFilter = NoLens, !.agentFilter = {}, !.sourceFilter = source])
    BY <1>4 DEF viewSourceLots
  <2> QED
    BY <1>0, <2>1 DEF To
<1>5. Back => Somewhere
  BY <1>0 DEF Back
<1>6. Navigate => ClearLens \/ Somewhere
  BY <1>1, <1>2, <1>3, <1>4, <1>5 DEF Navigate
<1> QED
  BY <1>6 DEF Somewhere

LEMMA NavigateMoves == ASSUME Shapes, Navigate PROVE RequestsMove
<1>1. ASSUME NEW to, Visit(to) PROVE RequestsMove
  BY <1>1, RequestsMuted DEF Visit
<1>2. CASE ClearLens
  BY <1>2, RequestsStay DEF ClearLens
<1> QED
  BY <1>1, <1>2, NavigateIs

LEMMA SettleMoves ==
  ASSUME Shapes, NEW i \in DOMAIN requests, NEW outcome, Settle(i, outcome) PROVE RequestsMove
<1>1. requests' = Without(requests, i)
  BY DEF Settle, Without
<1>2. Requests(requests)
  BY DEF Shapes
<1>3. IsSeq(requests') /\ \A k \in DOMAIN requests' : \E j \in DOMAIN requests : requests'[k] = requests[j]
  BY <1>1, <1>2, WithoutIs DEF Requests
<1> QED
  BY <1>2, <1>3 DEF RequestsMove, Requests, Carried, Same

LEMMA NextMoves == Shapes /\ [Next]_vars => RequestsMove
<1> SUFFICES ASSUME Shapes, [Next]_vars PROVE RequestsMove
  OBVIOUS
<1>1. UndoExpires \/ UNCHANGED vars => UNCHANGED requests
  BY DEF UndoExpires, vars, browser
<1>2. \A q \in Queries : Fetch(q) => UNCHANGED requests
  BY DEF Fetch
<1>3. Elsewhere \/ WalkOn => UNCHANGED requests
  BY DEF Elsewhere, WalkOn, browser
<1>4. Reobserve \/ Pool => Elsewhere
  BY Zenon DEF Reobserve, Pool
<1> QED
  BY <1>1, <1>2, <1>3, <1>4, RequestsStay, MarksMove, ClearMoves, DeskMoves, NavigateMoves, SettleMoves DEF Next
-----------------------------------------------------------------------------
(* What each part of a step leaves alone *)

LEMMA ScreenFrame ==
  ASSUME Marks \/ UndoExpires \/ clearShownInterest
  PROVE  /\ UNCHANGED <<errand, server, shell, dialog, walk, history>>
         /\ cache' = cache \/ cache' = Stale(cache, {Q("saved")})
<1> DEFINE Frame == /\ UNCHANGED <<errand, server, shell, dialog, walk, history>>
                    /\ cache' = cache \/ cache' = Stale(cache, {Q("saved")})
<1>1. \A home : toggleInterest(home) => Frame
  BY DEF toggleInterest
<1>2. \A home : dismiss(home) => Frame
  BY DEF dismiss
<1>3. \A home : restore(home) => Frame
  BY DEF restore
<1>4. UndoExpires => Frame
  BY DEF UndoExpires
<1>5. clearShownInterest => Frame
  BY DEF clearShownInterest
<1> HIDE DEF Frame
<1>6. Marks => Frame
  BY <1>1, <1>2, <1>3 DEF Marks
<1>7. Frame
  BY <1>4, <1>5, <1>6
<1> QED
  BY <1>7 DEF Frame

LEMMA NavigateFrame == ASSUME Navigate PROVE UNCHANGED <<errand, server, dialog, walk, outdated, consent>>
<1>1. \A to : Visit(to) => UNCHANGED <<errand, server, dialog, walk, outdated, consent>>
  BY DEF Visit
<1>2. ClearLens => UNCHANGED <<errand, server, dialog, walk, outdated, consent>>
  BY DEF ClearLens, history
<1> QED
  BY <1>1, <1>2, NavigateIs

LEMMA DeskFrame ==
  ASSUME Desk
  PROVE  UNCHANGED <<errand, server, cache, shell, screen, walk, astray, outdated>> /\ consent \subseteq consent'
<1> DEFINE Frame == UNCHANGED <<errand, server, cache, shell, screen, walk, astray, outdated>> /\ consent \subseteq consent'
<1>1. Steady => Frame
  BY DEF Steady, history
<1>2. Approve => Frame
  BY DEF Approve
<1>3. OpenEditor => Steady
  BY Zenon DEF OpenEditor
<1>4. EditForm => Steady
  BY Zenon DEF EditForm
<1>5. SaveForm \/ requestToggle \/ ConfirmPause => Steady
  BY Zenon DEF SaveForm, requestToggle, ConfirmPause
<1>6. AskRemove \/ ConfirmRemove \/ RemoveAgent => Steady
  BY Zenon DEF AskRemove, ConfirmRemove, RemoveAgent
<1>7. RefreshSources \/ LaunchModal \/ AgentRow \/ CloseDialog => Steady
  BY Zenon DEF RefreshSources, LaunchModal, AgentRow, CloseDialog
<1> HIDE DEF Frame
<1>8. Frame
  BY <1>1, <1>2, <1>3, <1>4, <1>5, <1>6, <1>7 DEF Desk
<1> QED
  BY <1>8 DEF Frame

LEMMA FetchFrame ==
  ASSUME NEW q \in Queries, Fetch(q) PROVE UNCHANGED <<errand, server, shell, requests, walk, consent>>
  BY DEF Fetch

LEMMA SettleFrame ==
  ASSUME NEW i, NEW outcome, Settle(i, outcome) PROVE UNCHANGED <<errand, shell, screen, consent>>
  BY DEF Settle

LEMMA ElsewhereIs ==
  ASSUME Reobserve \/ Pool
  PROVE  outdated' = Queries /\ UNCHANGED <<errand, browser, astray, consent, saved, hidden, searches>>
<1>1. Elsewhere
  BY Zenon DEF Reobserve, Pool
<1> QED
  BY <1>1 DEF Elsewhere

\* The server's tables under a change: the homes as they were, the agents or fewer.
LEMMA CarryFrame ==
  ASSUME DOMAIN queue = {"discover", "send", "scrape"}, NEW r, r.kind \in Kinds, Carry(r)
  PROVE  /\ rows' = rows /\ agents' \subseteq agents
         /\ r.kind # "approve" => queue'.send = queue.send
         /\ r.kind \notin {"remove", "erase"} => agents' = agents
         /\ r.kind \notin {"create", "update", "setStatus", "remove"} => searches' = searches
         /\ DOMAIN queue' = DOMAIN queue
<1>1. CASE r.kind \in Overlay
  <2>1. Carry(r) <=> CASE r.kind = "save"      -> bookmark(r.on)
                       [] r.kind = "unsave"    -> unbookmark(r.on)
                       [] r.kind = "dismiss"   -> hide(r.on)
                       [] r.kind = "restore"   -> unhide(r.on)
    BY <1>1 DEF Carry, Overlay
  <2> QED
    BY <1>1, <2>1 DEF Overlay, bookmark, unbookmark, hide, unhide
<1>2. CASE r.kind \in {"create", "update", "setStatus"}
  <2>1. Carry(r) <=> CASE r.kind = "create"    -> create(r.what)
                       [] r.kind = "update"    -> update(r.on, r.what)
                       [] r.kind = "setStatus" -> setStatus(r.on, r.what)
    BY <1>2 DEF Carry
  <2> QED
    BY <1>2, <2>1 DEF create, update, setStatus
<1>3. CASE r.kind = "remove"
  <2>1. removeSearch(r.on)
    BY <1>3 DEF Carry
  <2> QED
    BY <1>3, <2>1 DEF removeSearch
<1>4. CASE r.kind = "erase"
  <2>1. eraseAgent(r.on)
    BY <1>4 DEF Carry
  <2> QED
    BY <1>4, <2>1 DEF eraseAgent
<1>5. CASE r.kind = "launch"
  <2>1. launch(r.on)
    BY <1>5 DEF Carry
  <2> QED
    BY <1>5, <2>1 DEF launch
<1>6. CASE r.kind = "approve"
  <2>1. approveSends(r.on, r.what)
    BY <1>6 DEF Carry
  <2> QED
    BY <1>6, <2>1 DEF approveSends
<1>7. CASE r.kind = "refresh"
  <2>1. refresh
    BY <1>7 DEF Carry
  <2> QED
    BY <1>7, <2>1 DEF refresh
<1> QED
  BY <1>1, <1>2, <1>3, <1>4, <1>5, <1>6, <1>7 DEF Kinds

\* What a settling change does to the server: nothing, what it asks for, or some of
\* the sends it approves.
Effect(r, q) ==
  /\ q.kind = r.kind /\ q.on = r.on /\ q.kind \in Kinds
  /\ q.kind # "approve" => q.what = r.what /\ Found(r)
  /\ q.kind = "approve" => q.what \subseteq r.what
  /\ Carry(q)

LEMMA SettleServer ==
  ASSUME Shapes, NEW i \in DOMAIN requests, NEW outcome, Settle(i, outcome)
  PROVE  UNCHANGED server \/ \E q : Effect(requests[i], q)
<1> DEFINE r == requests[i]
<1>1. IsRequest(r)
  BY DEF Shapes, Requests
<1>2. IF outcome = "failed" \/ ~Found(r)
      THEN IF r.kind = "approve"
           THEN \E some \in SUBSET r.what : Carry([r EXCEPT !.what = some])
           ELSE UNCHANGED server
      ELSE Carry(r)
  BY Zenon DEF Settle
<1> HIDE DEF r
<1>3. CASE (outcome = "failed" \/ ~Found(r)) /\ r.kind = "approve"
  <2>1. PICK some \in SUBSET r.what : Carry([r EXCEPT !.what = some])
    BY <1>2, <1>3
  <2> DEFINE q == [r EXCEPT !.what = some]
  <2>2. q.kind = r.kind /\ q.on = r.on /\ q.what = some /\ Carry(q)
    BY <1>1, <2>1 DEF IsRequest
  <2> HIDE DEF q
  <2>3. Effect(r, q)
    BY <1>1, <1>3, <2>2 DEF Effect, IsRequest
  <2> QED
    BY <2>3 DEF r
<1>4. CASE ~(outcome = "failed" \/ ~Found(r))
  <2>1. Effect(r, r)
    BY <1>1, <1>2, <1>4 DEF Effect, IsRequest
  <2> QED
    BY <2>1 DEF r
<1> QED
  BY <1>2, <1>3, <1>4
-----------------------------------------------------------------------------
(* The shape is kept. *)

LEMMA SettleTables ==
  ASSUME Shapes, NEW i \in DOMAIN requests, NEW outcome, Settle(i, outcome)
  PROVE  rows' = rows /\ agents' \subseteq agents /\ DOMAIN queue' = DOMAIN queue
<1>1. ASSUME NEW q, Effect(requests[i], q)
      PROVE  rows' = rows /\ agents' \subseteq agents /\ DOMAIN queue' = DOMAIN queue
  BY <1>1, CarryFrame DEF Effect, Shapes
<1>2. UNCHANGED server => rows' = rows /\ agents' \subseteq agents /\ DOMAIN queue' = DOMAIN queue
  BY DEF server
<1> QED
  BY <1>1, <1>2, SettleServer

LEMMA ReobserveIs ==
  ASSUME Tables, Reobserve
  PROVE  \E row \in Variants[errand.name] :
           /\ IsListing(row) /\ rows' = {row} \union {r \in rows : r.id # row.id}
           /\ walk' = [walk EXCEPT !.steady = @ \ {row.id}] /\ UNCHANGED <<errand, agents, queue>>
<1>1. PICK row \in Variants[errand.name] : /\ rows' = {row} \union {r \in rows : r.id # row.id}
                                           /\ walk' = [walk EXCEPT !.steady = @ \ {row.id}]
  BY Zenon DEF Reobserve
<1>2. UNCHANGED <<errand, agents, queue>>
  BY DEF Reobserve, Elsewhere
<1>3. IsListing(row)
  BY ListingAssumption DEF Tables
<1> QED
  BY <1>1, <1>2, <1>3

LEMMA PoolIs ==
  ASSUME Tables, Pool
  PROVE  /\ UNCHANGED <<errand, rows, queue>>
         /\ \/ \E a \in Sourced : (\A b \in agents : b.id # a.id) /\ agents' = agents \union {a} /\ UNCHANGED walk
            \/ \E a \in agents : \E b : /\ IsAgent(b) /\ b.id = a.id /\ agents' = (agents \ {a}) \union {b}
                                        /\ walk' = [walk EXCEPT !.steady = @ \ {a.id}]
            \/ UNCHANGED <<agents, walk>>
<1>1. UNCHANGED <<errand, rows, queue>>
  <2>1. UNCHANGED <<rows, queue>>
    BY Zenon DEF Pool
  <2> QED
    BY <2>1, ElsewhereIs
<1> DEFINE Changed(a) ==
             {[a EXCEPT !.covers = Located[p]] : p \in DOMAIN Located} \union
                      {[a EXCEPT !.optedOut = TRUE], [a EXCEPT !.undeliverable = TRUE],
                       IF \E job \in queue.send : job[2] = a.id
                       THEN [a EXCEPT !.contacted = "recently", !.thread = "awaiting_reply"] ELSE a,
                       IF a.thread = "awaiting_reply" THEN [a EXCEPT !.thread = "replied"] ELSE a}
<1>2. \/ \E a \in Sourced : (\A b \in agents : b.id # a.id) /\ agents' = agents \union {a} /\ UNCHANGED walk
      \/ \E a \in agents : /\ \E b \in Changed(a) : agents' = (agents \ {a}) \union {b}
                           /\ walk' = [walk EXCEPT !.steady = @ \ {a.id}]
      \/ UNCHANGED <<agents, walk>>
  BY Zenon DEF Pool
<1>3. ASSUME NEW a \in agents, NEW b \in Changed(a) PROVE IsAgent(b) /\ b.id = a.id
  <2>1. IsAgent(a)
    BY DEF Tables
  <2>2. CASE \E p \in DOMAIN Located : b = [a EXCEPT !.covers = Located[p]]
    BY <2>1, <2>2 DEF IsAgent
  <2>3. CASE b = a \/ b = [a EXCEPT !.optedOut = TRUE] \/ b = [a EXCEPT !.undeliverable = TRUE]
    BY <2>1, <2>3 DEF IsAgent
  <2>4. CASE b = [a EXCEPT !.contacted = "recently", !.thread = "awaiting_reply"] \/ b = [a EXCEPT !.thread = "replied"]
    BY <2>1, <2>4 DEF IsAgent
  <2> QED
    BY <2>2, <2>3, <2>4
<1> HIDE DEF Changed
<1> QED
  BY <1>1, <1>2, <1>3

LEMMA InitTables == Init => Tables
<1> SUFFICES ASSUME Init PROVE Tables
  OBVIOUS
<1>1. errand \in Errands /\ rows \in Rows[errand.name] /\ agents = FirstAgents
  BY Zenon DEF Init
<1>2. IsFiniteSet(rows) /\ Keyed(rows) /\ \A row \in rows : IsListing(row)
  BY <1>1, ListingAssumption
<1>3. Keyed(FirstAgents) /\ \A a \in FirstAgents : IsAgent(a) /\ a.id \in AgentIds
  BY AgentAssumption DEF AgentIds
<1> QED
  BY <1>1, <1>2, <1>3 DEF Tables

LEMMA NextTables == Tables /\ Shapes /\ [Next]_vars => Tables'
<1> SUFFICES ASSUME Tables, Shapes, [Next]_vars PROVE Tables'
  OBVIOUS
<1>1. CASE UNCHANGED <<errand, rows>> /\ agents' \subseteq agents
  <2>1. Keyed(agents')
    BY <1>1 DEF Tables, Keyed
  <2> QED
    BY <1>1, <2>1 DEF Tables
<1>2. CASE Reobserve
  <2>1. PICK row : IsListing(row) /\ rows' = {row} \union {r \in rows : r.id # row.id} /\ UNCHANGED <<errand, agents>>
    BY <1>2, ReobserveIs
  <2>2. IsFiniteSet(rows')
    <3>1. {r \in rows : r.id # row.id} \in SUBSET rows
      OBVIOUS
    <3>2. IsFiniteSet({r \in rows : r.id # row.id})
      BY <3>1, FS_Subset DEF Tables
    <3> QED
      BY <2>1, <3>2, FS_Singleton, FS_Union
  <2>3. Keyed(rows') /\ \A r \in rows' : IsListing(r)
    BY <2>1 DEF Keyed, Tables
  <2> QED
    BY <2>1, <2>2, <2>3 DEF Tables
<1>3. CASE Pool
  <2>1. UNCHANGED <<errand, rows>>
    BY <1>3, PoolIs
  <2>2. ASSUME NEW a \in Sourced, \A b \in agents : b.id # a.id, agents' = agents \union {a}
        PROVE  Keyed(agents') /\ \A b \in agents' : IsAgent(b) /\ b.id \in AgentIds
    BY <2>2, AgentAssumption DEF Tables, Keyed, AgentIds
  <2>3. ASSUME NEW a \in agents, NEW b, IsAgent(b), b.id = a.id, agents' = (agents \ {a}) \union {b}
        PROVE  Keyed(agents') /\ \A c \in agents' : IsAgent(c) /\ c.id \in AgentIds
    BY <2>3 DEF Tables, Keyed
  <2>4. agents' = agents => Keyed(agents') /\ \A b \in agents' : IsAgent(b) /\ b.id \in AgentIds
    BY DEF Tables
  <2>5. Keyed(agents') /\ \A b \in agents' : IsAgent(b) /\ b.id \in AgentIds
    BY <1>3, <2>2, <2>3, <2>4, PoolIs
  <2> QED
    BY <2>1, <2>5 DEF Tables
<1>4. UNCHANGED <<errand, server>> => UNCHANGED <<errand, rows>> /\ agents' \subseteq agents
  BY DEF server
<1>5. CASE Marks \/ UndoExpires \/ clearShownInterest
  BY <1>1, <1>4, <1>5, ScreenFrame
<1>6. CASE Navigate
  BY <1>1, <1>4, <1>6, NavigateFrame
<1>7. CASE Desk
  BY <1>1, <1>4, <1>7, DeskFrame
<1>8. CASE \E q \in Queries : Fetch(q)
  BY <1>1, <1>4, <1>8, FetchFrame
<1>9. ASSUME NEW i \in DOMAIN requests, NEW outcome, Settle(i, outcome) PROVE Tables'
  BY <1>1, <1>9, SettleTables, SettleFrame
<1>10. CASE WalkOn \/ UNCHANGED vars
  <2>1. UNCHANGED <<errand, server>>
    BY <1>10 DEF WalkOn, vars
  <2> QED
    BY <1>1, <1>4, <2>1
<1> QED
  BY <1>2, <1>3, <1>5, <1>6, <1>7, <1>8, <1>9, <1>10 DEF Next

LEMMA QueriesAre ==
  /\ \A n \in {"list", "saved", "dismissed", "searches", "agents", "agentStats", "sources"} : Q(n) \in Queries
  /\ \A id \in SearchIds : <<"review", id>> \in Queries /\ <<"preview", id>> \in Queries
  BY DEF Queries

\* The answers kept: as they were, thrown away, or read now.
CacheKeepsShape(c) ==
  /\ DOMAIN c = Queries /\ \A q \in Queries : DOMAIN c[q] = {"data", "status", "fresh"}
  /\ \A n \in {"list", "saved", "dismissed"} : IsFiniteSet(c[Q(n)].data)

CacheMoves(c) ==
  /\ DOMAIN c = Queries
  /\ \A q \in Queries :
       \/ c[q] = Nowhere
       \/ DOMAIN c[q] = {"data", "status", "fresh"} /\ c[q].data = Data(q)
       \/ c[q] = [data |-> Answer(q), status |-> "success", fresh |-> TRUE]

LEMMA MovedShape ==
  ASSUME Tables, Shapes, NEW c, CacheMoves(c) PROVE CacheKeepsShape(c)
<1>1. \A q \in Queries : DOMAIN c[q] = {"data", "status", "fresh"}
  BY DEF CacheMoves, Nowhere
<1>2. ASSUME NEW n \in {"list", "saved", "dismissed"} PROVE IsFiniteSet(c[Q(n)].data)
  <2>1. Q(n) \in Queries /\ IsFiniteSet(Data(Q(n))) /\ IsFiniteSet(Answer(Q(n)))
    BY QueriesAre, AnswerFinite DEF Shapes
  <2>2. c[Q(n)].data \in {{}, Data(Q(n)), Answer(Q(n))}
    BY <2>1 DEF CacheMoves, Nowhere
  <2> QED
    BY <2>1, <2>2, FS_EmptySet
<1> QED
  BY <1>1, <1>2 DEF CacheKeepsShape, CacheMoves

LEMMA StaleIs ==
  ASSUME Shapes, NEW queries
  PROVE  /\ CacheMoves(Stale(cache, queries))
         /\ \A q \in Queries : /\ Stale(cache, queries)[q].data = Data(q)
                               /\ Stale(cache, queries)[q].status = cache[q].status
                               /\ Stale(cache, queries)[q].fresh <=> cache[q].fresh /\ q \notin queries
  BY DEF Stale, Shapes, CacheMoves, Data

LEMMA CacheStays == ASSUME Shapes PROVE CacheMoves(cache)
  BY DEF Shapes, CacheMoves, Data

LEMMA VisitCache ==
  ASSUME Shapes, NEW to, Visit(to)
  PROVE  /\ CacheMoves(cache')
         /\ \A q \in Queries : /\ cache'[q] = Nowhere \/ (cache'[q].data = Data(q) /\ cache'[q].status = cache[q].status)
                               /\ cache'[q].fresh => cache[q].fresh
                               /\ q[1] \in {"agents", "agentStats"} /\ to.agentFilter # shell.agentFilter
                                    => cache'[q] = Nowhere
<1>1. PICK old \in BOOLEAN :
        cache' = [q \in Queries |->
                    IF q \in {x \in Queries : \/ x = Q("list") /\ <<to.searchFilter, to.sourceFilter>>
                                                                     # <<shell.searchFilter, shell.sourceFilter>>
                                              \/ x[1] \in {"agents", "agentStats"} /\ to.agentFilter # shell.agentFilter}
                    THEN Nowhere
                    ELSE IF old THEN [cache[q] EXCEPT !.fresh = FALSE] ELSE cache[q]]
  BY Zenon DEF Visit
<1>2. DOMAIN cache' = Queries
  BY <1>1
<1>3. ASSUME NEW q \in Queries
      PROVE  /\ cache'[q] \in {Nowhere, [cache[q] EXCEPT !.fresh = FALSE], cache[q]}
             /\ q[1] \in {"agents", "agentStats"} /\ to.agentFilter # shell.agentFilter => cache'[q] = Nowhere
  BY <1>1
<1>4. \A q \in Queries : DOMAIN cache[q] = {"data", "status", "fresh"}
  BY DEF Shapes
<1> QED
  BY <1>2, <1>3, <1>4 DEF CacheMoves, Data, Nowhere

LEMMA FetchCache ==
  ASSUME Shapes, NEW q \in Queries, Fetch(q)
  PROVE  /\ CacheMoves(cache')
         /\ \A x \in Queries \ {q} : cache'[x] = cache[x]
         /\ \/ /\ cache'[q] = [data |-> Answer(q), status |-> "success", fresh |-> TRUE]
               /\ outdated' = outdated \ {q} /\ ~Refused(q) /\ dialog' = Review(dialog, cache')
            \/ /\ cache'[q].status = "error" /\ cache'[q].data = Data(q)
               /\ outdated' = outdated /\ dialog' = dialog
<1> DEFINE c == [cache EXCEPT ![q] = [data |-> Answer(q), status |-> "success", fresh |-> TRUE]]
<1>1. \/ cache' = c /\ outdated' = outdated \ {q} /\ ~Refused(q) /\ dialog' = Review(dialog, c)
      \/ cache' = [cache EXCEPT ![q].status = "error"] /\ outdated' = outdated /\ dialog' = dialog
  BY Zenon DEF Fetch
<1>2. DOMAIN cache = Queries /\ \A x \in Queries : DOMAIN cache[x] = {"data", "status", "fresh"}
  BY DEF Shapes
<1>3. CASE cache' = c /\ outdated' = outdated \ {q} /\ ~Refused(q) /\ dialog' = Review(dialog, c)
  <2>1. cache'[q] = [data |-> Answer(q), status |-> "success", fresh |-> TRUE] /\ DOMAIN cache' = Queries
        /\ \A x \in Queries \ {q} : cache'[x] = cache[x]
    BY <1>2, <1>3
  <2> HIDE DEF c
  <2> QED
    BY <1>2, <1>3, <2>1 DEF CacheMoves, Data
<1>4. CASE cache' = [cache EXCEPT ![q].status = "error"] /\ outdated' = outdated /\ dialog' = dialog
  <2>1. /\ cache'[q].status = "error" /\ cache'[q].data = Data(q) /\ DOMAIN cache' = Queries
        /\ DOMAIN cache'[q] = {"data", "status", "fresh"} /\ \A x \in Queries \ {q} : cache'[x] = cache[x]
    BY <1>2, <1>4 DEF Data
  <2> QED
    BY <1>2, <1>4, <2>1 DEF CacheMoves, Data
<1> QED
  BY <1>1, <1>3, <1>4

LEMMA ClearLensCache ==
  ASSUME Shapes, ClearLens
  PROVE  /\ CacheMoves(cache') /\ cache'[Q("list")] = Nowhere
         /\ \A q \in Queries \ {Q("list")} : cache'[q] = cache[q]
<1>1. cache' = [cache EXCEPT ![Q("list")] = Nowhere]
  BY Zenon DEF ClearLens
<1>2. DOMAIN cache = Queries /\ \A x \in Queries : DOMAIN cache[x] = {"data", "status", "fresh"}
  BY DEF Shapes
<1>3. DOMAIN cache' = Queries /\ cache'[Q("list")] = Nowhere /\ \A q \in Queries \ {Q("list")} : cache'[q] = cache[q]
  BY <1>1, <1>2, QueriesAre
<1> QED
  BY <1>2, <1>3 DEF CacheMoves, Data

LEMMA SettleCache ==
  ASSUME Shapes, NEW i \in DOMAIN requests, NEW outcome, Settle(i, outcome)
  PROVE  \E queries :
           /\ cache' = Stale(cache, queries)
           /\ outcome = "done" /\ Found(requests[i]) /\ requests[i].kind \notin Overlay
                => queries = Touches(requests[i].kind)
<1> DEFINE r == requests[i]
           queries == IF r.kind \in Overlay THEN (IF r.calls THEN {Q(Serves(r.kind))} ELSE {})
                      ELSE IF outcome = "done" /\ Found(r) THEN Touches(r.kind) ELSE {}
<1>1. cache' = Stale(cache, queries)
  BY Zenon DEF Settle
<1> QED
  BY <1>1

LEMMA NextCache == ASSUME Tables, Shapes, [Next]_vars PROVE CacheMoves(cache')
<1>1. CASE cache' = cache
  BY <1>1, CacheStays
<1>2. CASE Marks \/ UndoExpires \/ clearShownInterest
  BY <1>1, <1>2, ScreenFrame, StaleIs
<1>3. CASE Navigate
  BY <1>3, NavigateIs, VisitCache, ClearLensCache
<1>4. CASE Desk
  BY <1>1, <1>4, DeskFrame
<1>5. CASE \E q \in Queries : Fetch(q)
  BY <1>5, FetchCache
<1>6. ASSUME NEW i \in DOMAIN requests, NEW outcome, Settle(i, outcome) PROVE CacheMoves(cache')
  BY <1>6, SettleCache, StaleIs
<1>7. CASE Reobserve \/ Pool
  BY <1>1, <1>7, ElsewhereIs DEF browser
<1>8. WalkOn \/ UNCHANGED vars => cache' = cache
  BY DEF WalkOn, vars, browser
<1> QED
  BY <1>1, <1>2, <1>3, <1>4, <1>5, <1>6, <1>7, <1>8 DEF Next
-----------------------------------------------------------------------------
(* What a step does to the dialog *)

Opened(kind, search) == [NoDialog EXCEPT !.kind = kind, !.search = search]
Editing(form) == [NoDialog EXCEPT !.kind = "edit", !.search = form.id, !.form = form]
Typed(place) == [dialog EXCEPT !.form.location = Text(place, FALSE, FALSE), !.form.name = Text(place, FALSE, FALSE)]
Ticked(id) == [dialog EXCEPT !.checked = toggleArr(@, id)]
Told(n) == [dialog EXCEPT !.sent = n]

\* The dialog opens, is typed in, ticked, told of a review or of what was sent, or closes.
DialogMoves ==
  \/ dialog' \in {dialog, NoDialog}
  \/ \E form \in {BLANK} \union {formFromSearch(search) : search \in Data(Q("searches"))} : dialog' = Editing(form)
  \/ dialog.kind = "edit" /\ \E place : dialog' = Typed(place)
  \/ \E search \in Data(Q("searches")), kind \in {"pause", "remove"} : dialog' = Opened(kind, search.id)
  \/ \E search \in Data(Q("searches")) : dialog' = Review(Opened("launch", search.id), cache)
  \/ \E q \in Queries : dialog' = Review(dialog, cache') /\ \A x \in Queries \ {q} : cache'[x] = cache[x]
  \/ /\ dialog.kind = "launch"
     /\ \E row \in Data(<<"review", dialog.search>>) : row.eligible /\ dialog' = Ticked(row.id)
  \/ \E n : dialog' = Told(n)

LEMMA DeskDialog == ASSUME Desk PROVE DialogMoves
<1>1. OpenEditor => DialogMoves
  BY Zenon DEF OpenEditor, DialogMoves, Editing
<1>2. EditForm => DialogMoves
  BY Zenon DEF EditForm, DialogMoves, Typed
<1>3. SaveForm \/ ConfirmPause \/ ConfirmRemove \/ RemoveAgent \/ RefreshSources \/ Approve => dialog' = dialog
  BY Zenon DEF SaveForm, ConfirmPause, ConfirmRemove, RemoveAgent, RefreshSources, Approve
<1>4. requestToggle => DialogMoves
  BY Zenon DEF requestToggle, DialogMoves, Open, Opened
<1>5. AskRemove => DialogMoves
  BY Zenon DEF AskRemove, DialogMoves, Open, Opened
<1>6. LaunchModal => DialogMoves
  BY Zenon DEF LaunchModal, DialogMoves, Opened
<1>7. AgentRow => DialogMoves
  BY Zenon DEF AgentRow, DialogMoves, Ticked
<1>8. CloseDialog => dialog' = NoDialog
  BY Zenon DEF CloseDialog
<1>9. dialog' \in {dialog, NoDialog} => DialogMoves
  BY DEF DialogMoves
<1> QED
  BY <1>1, <1>2, <1>3, <1>4, <1>5, <1>6, <1>7, <1>8, <1>9 DEF Desk

LEMMA NextDialog == ASSUME Shapes, [Next]_vars PROVE DialogMoves
<1>1. CASE dialog' \in {dialog, NoDialog}
  BY <1>1 DEF DialogMoves
<1>2. CASE Marks \/ UndoExpires \/ clearShownInterest
  BY <1>1, <1>2, ScreenFrame
<1>3. CASE Navigate
  BY <1>1, <1>3, NavigateFrame
<1>4. CASE Desk
  BY <1>4, DeskDialog
<1>5. ASSUME NEW q \in Queries, Fetch(q) PROVE DialogMoves
  BY <1>5, FetchCache DEF DialogMoves
<1>6. ASSUME NEW i \in DOMAIN requests, NEW outcome, Settle(i, outcome) PROVE DialogMoves
  <2>1. dialog' \in {dialog, NoDialog} \/ \E n : dialog' = Told(n)
    BY Zenon, <1>6 DEF Settle, Told
  <2> QED
    BY <2>1 DEF DialogMoves
<1>7. CASE Reobserve \/ Pool
  BY <1>1, <1>7, ElsewhereIs DEF browser
<1>8. WalkOn \/ UNCHANGED vars => dialog' = dialog
  BY DEF WalkOn, vars, browser
<1> QED
  BY <1>1, <1>2, <1>3, <1>4, <1>5, <1>6, <1>7, <1>8 DEF Next

LEMMA ReviewIs ==
  ASSUME NEW d, DOMAIN d = DOMAIN NoDialog, NEW c
  PROVE  LET agentRows == c[<<"review", d.search>>].data
             eligible  == {row.id : row \in {r \in agentRows : r.eligible}}
             after     == Review(d, c)
         IN  /\ DOMAIN after = DOMAIN NoDialog
             /\ after.kind = d.kind /\ after.search = d.search /\ after.form = d.form
             /\ d.kind # "launch" => after = d
             /\ d.kind = "launch" => /\ after.shown = d.shown \union eligible
                                     /\ after.checked \in {d.checked, eligible}
  BY DEF Review, NoDialog

LEMMA NextDialogShape ==
  ASSUME Shapes, [Next]_vars PROVE DOMAIN dialog' = {"kind", "search", "form", "checked", "shown", "seeded", "sent"}
<1>1. DOMAIN dialog = DOMAIN NoDialog
  BY DEF Shapes, NoDialog
<1>2. \A form : DOMAIN Editing(form) = DOMAIN NoDialog
  BY DEF Editing, NoDialog
<1>3. \A kind, search : DOMAIN Opened(kind, search) = DOMAIN NoDialog
  BY DEF Opened, NoDialog
<1>4. /\ \A place : DOMAIN Typed(place) = DOMAIN NoDialog
      /\ \A id : DOMAIN Ticked(id) = DOMAIN NoDialog
      /\ \A n : DOMAIN Told(n) = DOMAIN NoDialog
  <2>1. \A place : DOMAIN Typed(place) = DOMAIN dialog
    BY Zenon DEF Typed
  <2> QED
    BY <1>1, <2>1 DEF Ticked, Told
<1>5. DOMAIN dialog' = DOMAIN NoDialog
  <2>1. \A search : DOMAIN Review(Opened("launch", search), cache) = DOMAIN NoDialog
    BY <1>3, ReviewIs
  <2>2. DOMAIN Review(dialog, cache') = DOMAIN NoDialog
    BY <1>1, ReviewIs
  <2> QED
    BY <1>1, <1>2, <1>3, <1>4, <2>1, <2>2, NextDialog DEF DialogMoves
<1> QED
  BY <1>5 DEF NoDialog

\* The walk of an errand, at its start.
Walking(w) ==
  [NoWalk EXCEPT !.what = w.what, !.input = w.input, !.done = FALSE, !.steady = Sought(w.what, w.input)]

LEMMA InitShapes == Init => Shapes
<1> SUFFICES ASSUME Init PROVE Shapes
  OBVIOUS
<1>1. cache = [q \in Queries |-> Nowhere] /\ requests = <<>>
  BY Zenon DEF Init
<1>2. DOMAIN cache = Queries /\ \A q \in Queries : DOMAIN cache[q] = {"data", "status", "fresh"} /\ Data(q) = {}
  BY <1>1 DEF Nowhere, Data
<1>3. \A n \in {"list", "saved", "dismissed"} : IsFiniteSet(Data(Q(n)))
  BY <1>2, QueriesAre, FS_EmptySet
<1>4. DOMAIN dialog = {"kind", "search", "form", "checked", "shown", "seeded", "sent"}
  <2>1. dialog \in {NoDialog} \union {Editing(f) : f \in Forms}
    BY Zenon DEF Init, Editing
  <2>2. DOMAIN NoDialog = {"kind", "search", "form", "checked", "shown", "seeded", "sent"}
    BY DEF NoDialog
  <2>3. \A f : DOMAIN Editing(f) = DOMAIN NoDialog
    BY DEF Editing
  <2> QED
    BY <2>1, <2>2, <2>3
<1>5. DOMAIN shell = {"path", "back", "searchFilter", "agentFilter", "sourceFilter"}
  <2>1. shell = [path |-> errand.start, back |-> "none", searchFilter |-> NoLens, agentFilter |-> {},
                 sourceFilter |-> NoSource]
    BY Zenon DEF Init
  <2> QED
    BY <2>1
<1>6. DOMAIN queue = {"discover", "send", "scrape"}
  <2>1. queue = [discover |-> {}, send |-> {}, scrape |-> FALSE]
    BY Zenon DEF Init
  <2> QED
    BY <2>1
<1>7. DOMAIN walk = {"what", "input", "cursor", "seen", "steady", "done"}
  <2>1. walk \in {NoWalk} \union {Walking(w) : w \in Inputs}
    BY Zenon DEF Init, Walking
  <2>2. \A w : DOMAIN Walking(w) = DOMAIN NoWalk
    BY DEF Walking
  <2> QED
    BY <2>1, <2>2 DEF NoWalk
<1>8. Requests(requests)
  BY <1>1 DEF Requests, IsSeq
<1> QED
  BY <1>2, <1>3, <1>4, <1>5, <1>6, <1>7, <1>8 DEF Shapes

LEMMA NextShapes == Tables /\ Shapes /\ [Next]_vars => Shapes'
<1> SUFFICES ASSUME Tables, Shapes, [Next]_vars PROVE Shapes'
  OBVIOUS
<1>1. CacheKeepsShape(cache')
  BY NextCache, MovedShape
<1>2. Requests(requests')
  BY NextMoves DEF RequestsMove
<1>3. DOMAIN shell' = DOMAIN shell /\ DOMAIN queue' = DOMAIN queue /\ DOMAIN walk' = DOMAIN walk
  <2> DEFINE Kept3 == DOMAIN shell' = DOMAIN shell /\ DOMAIN queue' = DOMAIN queue /\ DOMAIN walk' = DOMAIN walk
  <2>1. UNCHANGED <<server, shell, walk>> => Kept3
    BY DEF server
  <2>2. UNCHANGED <<server, walk>> /\ DOMAIN shell' = DOMAIN shell => Kept3
    BY DEF server
  <2>3. UNCHANGED <<shell, walk>> /\ DOMAIN queue' = DOMAIN queue => Kept3
    OBVIOUS
  <2>4. UNCHANGED <<shell, queue>> /\ DOMAIN walk' = DOMAIN walk => Kept3
    OBVIOUS
  <2>5. UNCHANGED shell /\ DOMAIN queue' = DOMAIN queue /\ DOMAIN walk' = DOMAIN walk => Kept3
    OBVIOUS
  <2> HIDE DEF Kept3
  <2>6. ASSUME Marks \/ UndoExpires \/ clearShownInterest PROVE Kept3
    BY <2>1, <2>6, ScreenFrame
  <2>7. ASSUME Navigate PROVE Kept3
    <3>1. UNCHANGED <<server, walk>>
      BY <2>7, NavigateFrame
    <3>2. \A to : Visit(to) => shell' = to
      BY Zenon DEF Visit
    <3>3. ClearLens => DOMAIN shell' = DOMAIN shell
      BY DEF ClearLens
    <3> QED
      BY <2>2, <2>7, <3>1, <3>2, <3>3, NavigateIs
  <2>8. ASSUME Desk PROVE Kept3
    BY <2>1, <2>8, DeskFrame
  <2>9. ASSUME \E q \in Queries : Fetch(q) PROVE Kept3
    BY <2>1, <2>9, FetchFrame
  <2>10. ASSUME NEW i \in DOMAIN requests, NEW outcome, Settle(i, outcome) PROVE Kept3
    <3>1. walk' = IF walk.what = "agents" THEN [walk EXCEPT !.steady = @ \intersect {a.id : a \in agents'}] ELSE walk
      BY Zenon, <2>10 DEF Settle
    <3>2. DOMAIN walk' = DOMAIN walk
      BY <3>1
    <3> QED
      BY <2>5, <2>10, <3>2, SettleFrame, SettleTables
  <2>11. ASSUME Reobserve \/ Pool PROVE Kept3
    <3>1. UNCHANGED shell
      BY <2>11, ElsewhereIs DEF browser
    <3>2. Reobserve => UNCHANGED queue /\ DOMAIN walk' = DOMAIN walk
      BY ReobserveIs
    <3>3. Pool => UNCHANGED queue /\ DOMAIN walk' = DOMAIN walk
      BY PoolIs
    <3> QED
      BY <2>4, <2>11, <3>1, <3>2, <3>3
  <2>12. ASSUME WalkOn PROVE Kept3
    <3>1. DOMAIN walk' = DOMAIN walk
      BY <2>12 DEF WalkOn
    <3>2. UNCHANGED <<shell, queue>>
      BY <2>12 DEF WalkOn, browser, server
    <3> QED
      BY <2>4, <3>1, <3>2
  <2>13. UNCHANGED vars => UNCHANGED <<server, shell, walk>>
    BY DEF vars, browser
  <2>14. Kept3
    BY <2>1, <2>6, <2>7, <2>8, <2>9, <2>10, <2>11, <2>12, <2>13 DEF Next
  <2> QED
    BY <2>14 DEF Kept3
<1> QED
  BY <1>1, <1>2, <1>3, NextDialogShape DEF Shapes, CacheKeepsShape, Data

\* A catalogue whose rows have an id of their own, agents that were known or were
\* found, and every record of the browser with its fields, however the operator,
\* the server's answers and everyone else take turns (listing.repository,
\* agent.repository, the caches and dialogs of apps/web).
THEOREM ConsoleIsTyped == Spec => [](Tables /\ Shapes)
<1>1. Init => Tables /\ Shapes
  BY InitTables, InitShapes
<1>2. Tables /\ Shapes /\ [Next]_vars => (Tables /\ Shapes)'
  BY NextTables, NextShapes
<1> QED
  BY <1>1, <1>2, PTL DEF Spec
-----------------------------------------------------------------------------
(* Walking through a list *)

Met(seen, id) == \E i \in DOMAIN seen : seen[i] = id
Once(seen, id) == \A i, j \in DOMAIN seen : seen[i] = id /\ seen[j] = id => i = j

\* The rows the next page is taken from are those the walk has not met.
Passed(what, input, cursor, row) == cursor # NoCursor /\ ~Behind(what, input, cursor, Spot(what, input, row))
Ids_(items) == [i \in DOMAIN items |-> items[i].id]

LEMMA JoinedAt ==
  ASSUME NEW s, IsSeq(s), NEW t, IsSeq(t), NEW n \in Nat, DOMAIN s = 1..n, NEW m \in Nat, DOMAIN t = 1..m
  PROVE  /\ IsSeq(Joined(s, t)) /\ DOMAIN Joined(s, t) = 1..(n + m)
         /\ \A i \in 1..n : Joined(s, t)[i] = s[i]
         /\ \A i \in 1..m : Joined(s, t)[n + i] = t[i]
<1> DEFINE S == {s[j] : j \in DOMAIN s}
           T == {t[j] : j \in DOMAIN t}
           c == s \o t
<1>1. s \in Seq(S) /\ t \in Seq(T)
  BY SeqOver
<1> HIDE DEF S, T
<1>2. s \in Seq(S \union T) /\ t \in Seq(S \union T)
  BY <1>1
<1>3. Len(s) = n /\ Len(t) = m
  BY <1>2
<1>4. c \in Seq(S \union T) /\ Len(c) = n + m
  BY <1>2, <1>3
<1>5. \A i \in 1..n : c[i] = s[i]
  BY <1>2, <1>3
<1>6. \A i \in 1..m : c[n + i] = t[i]
  BY <1>2, <1>3
<1>7. DOMAIN c = 1..(n + m)
  BY <1>4
<1> HIDE DEF c
<1>8. IsSeq(c)
  BY <1>4, SeqIsSeq
<1> QED
  BY <1>5, <1>6, <1>7, <1>8 DEF c, Joined

LEMMA JoinedMeets ==
  ASSUME NEW s, IsSeq(s), NEW t, IsSeq(t), NEW id
  PROVE  /\ IsSeq(Joined(s, t))
         /\ Met(Joined(s, t), id) <=> Met(s, id) \/ Met(t, id)
         /\ Once(s, id) /\ Once(t, id) /\ ~(Met(s, id) /\ Met(t, id)) => Once(Joined(s, t), id)
<1>1. PICK n \in Nat : DOMAIN s = 1..n
  BY DEF IsSeq
<1>2. PICK m \in Nat : DOMAIN t = 1..m
  BY DEF IsSeq
<1> DEFINE c == Joined(s, t)
<1>3. /\ IsSeq(c) /\ DOMAIN c = 1..(n + m)
      /\ \A i \in 1..n : c[i] = s[i]
      /\ \A i \in 1..m : c[n + i] = t[i]
  BY <1>1, <1>2, JoinedAt
<1> HIDE DEF c
<1>4. ASSUME NEW i \in 1..(n + m) PROVE i \in 1..n \/ (i - n \in 1..m /\ i = n + (i - n))
  OBVIOUS
<1>5. ASSUME NEW i \in 1..n PROVE i \in 1..(n + m)
  OBVIOUS
<1>6. ASSUME NEW i \in 1..m PROVE n + i \in 1..(n + m)
  OBVIOUS
<1>7. ASSUME Met(c, id) PROVE Met(s, id) \/ Met(t, id)
  <2>1. PICK i \in 1..(n + m) : c[i] = id
    BY <1>3, <1>7 DEF Met
  <2>2. CASE i \in 1..n
    BY <1>1, <1>3, <2>1, <2>2 DEF Met
  <2>3. CASE i - n \in 1..m /\ i = n + (i - n)
    <3>1. t[i - n] = id
      BY <1>3, <2>1, <2>3
    <3> QED
      BY <1>2, <2>3, <3>1 DEF Met
  <2> QED
    BY <1>4, <2>2, <2>3
<1>8. ASSUME Met(s, id) \/ Met(t, id) PROVE Met(c, id)
  BY <1>1, <1>2, <1>3, <1>5, <1>6, <1>8 DEF Met
<1>9. ASSUME Once(s, id), Once(t, id), ~(Met(s, id) /\ Met(t, id)) PROVE Once(c, id)
  <2> SUFFICES ASSUME NEW i \in 1..(n + m), NEW j \in 1..(n + m), c[i] = id, c[j] = id PROVE i = j
    BY <1>3 DEF Once
  <2>1. ASSUME NEW k \in 1..(n + m), c[k] = id
        PROVE  (k \in 1..n /\ s[k] = id /\ Met(s, id)) \/ (k - n \in 1..m /\ t[k - n] = id /\ Met(t, id))
    <3>1. CASE k \in 1..n
      BY <1>1, <1>3, <2>1, <3>1 DEF Met
    <3>2. CASE k - n \in 1..m /\ k = n + (k - n)
      <4>1. t[k - n] = id
        BY <1>3, <2>1, <3>2
      <4> QED
        BY <1>2, <3>2, <4>1 DEF Met
    <3> QED
      BY <1>4, <3>1, <3>2
  <2>2. CASE i \in 1..n /\ s[i] = id /\ j \in 1..n /\ s[j] = id
    BY <1>1, <1>9, <2>2 DEF Once
  <2>3. CASE i - n \in 1..m /\ t[i - n] = id /\ j - n \in 1..m /\ t[j - n] = id
    <3>1. i - n = j - n
      BY <1>2, <1>9, <2>3 DEF Once
    <3> QED
      BY <3>1
  <2> QED
    BY <1>9, <2>1, <2>2, <2>3
<1> QED
  BY <1>3, <1>7, <1>8, <1>9 DEF c

\* A page's items: all of them and no more to come, or as many as it may hold, up to its cursor.
Holds(items, next, S, R, limit, cursor) ==
  \E n \in Nat : /\ DOMAIN items = 1..n /\ \A i \in 1..n : items[i] \in S
                 /\ \A i, j \in 1..n : items[i] = items[j] => i = j
                 /\ \/ next = NoCursor /\ \A row \in S : \E i \in 1..n : items[i] = row
                    \/ n = limit /\ \E last \in S :
                         /\ next = cursor[last]
                         /\ \A row \in S : (\E i \in 1..n : items[i] = row)
                                             <=> (row = last \/ <<row, last>> \in R)

LEMMA PageItems ==
  ASSUME NEW items, NEW next, NEW S, NEW R, NEW limit \in Nat, NEW cursor, IsPage(items, next, S, R, limit, cursor)
  PROVE  Holds(items, next, S, R, limit, cursor)
<1>1. PICK n \in Nat : items \in [1..n -> S]
  BY DEF IsPage
<1>2. DOMAIN items = 1..n /\ (DOMAIN items = 1..limit => n = limit)
  BY <1>1
<1> QED
  BY <1>1, <1>2 DEF IsPage, Holds

\* A page holds, each once, the rows its cursor moves over: as many as it may hold, when more are to come.
Covers(what, input, table, cursor, limit, page) ==
  /\ page.nextCursor = NoCursor \/ IsCursor(what, input, page.nextCursor)
  /\ \E n \in Nat : /\ DOMAIN page.items = 1..n /\ (page.nextCursor # NoCursor => n = limit)
                    /\ \A i \in 1..n : page.items[i] \in Due(what, input, table, cursor)
                    /\ \A i, j \in 1..n : page.items[i] = page.items[j] => i = j
  /\ \A row \in table :
       Wanted(what, input, row) =>
         (Passed(what, input, cursor, row) \/ (\E i \in DOMAIN page.items : page.items[i] = row)
            <=> page.nextCursor = NoCursor \/ Passed(what, input, page.nextCursor, row))

LEMMA PageCovers ==
  ASSUME NEW what \in {"listings", "agents"}, NEW input, what = "listings" => input.sort.dir \in {"asc", "desc"},
         NEW table, Keyed(table), \A x \in table : IsRow(what, x),
         NEW cursor, cursor = NoCursor \/ IsCursor(what, input, cursor), NEW limit \in Nat, NEW page,
         IsPage(page.items, page.nextCursor, Due(what, input, table, cursor),
                DueOrder(what, input, Due(what, input, table, cursor)), limit,
                Spots(what, input, Due(what, input, table, cursor)))
  PROVE  Covers(what, input, table, cursor, limit, page)
<1> DEFINE due == Due(what, input, table, cursor)
           R == DueOrder(what, input, due)
           items == page.items
           next == page.nextCursor
           spot(row) == Spot(what, input, row)
           spots == Spots(what, input, due)
<1>1. limit \in Nat /\ IsPage(items, next, due, R, limit, spots)
  OBVIOUS
<1>2. \A row \in due : spots[row] = spot(row)
  BY DEF Spots
<1>3. \A x, y \in due : <<x, y>> \in R <=> Behind(what, input, spot(x), spot(y))
  BY DEF DueOrder
<1>4. due \subseteq table /\ \A row \in table : Wanted(what, input, row) =>
        (row \in due <=> ~Passed(what, input, cursor, row))
  BY DEF Due, Passed
<1>5. \A row \in due : cursor # NoCursor => Behind(what, input, cursor, spot(row))
  BY DEF Due
<1>6. \A row \in table : spot(row) \in Place /\ IsCursor(what, input, spot(row)) /\ spot(row).id = row.id
  BY SpotIs DEF IsCursor
<1>7. Way(what, input) \in {"asc", "desc"} /\ NullsFirst(what, input) \in BOOLEAN
  BY WayIs
<1> HIDE DEF due, R, items, next, spot, spots
<1>15. Holds(items, next, due, R, limit, spots)
  BY <1>1, PageItems
<1>8. PICK n \in Nat : /\ DOMAIN items = 1..n /\ \A i \in 1..n : items[i] \in due
                       /\ \A i, j \in 1..n : items[i] = items[j] => i = j
                       /\ \/ next = NoCursor /\ \A row \in due : \E i \in 1..n : items[i] = row
                          \/ n = limit /\ \E last \in due :
                               /\ next = spots[last]
                               /\ \A row \in due : (\E i \in 1..n : items[i] = row)
                                                     <=> (row = last \/ <<row, last>> \in R)
  BY <1>15 DEF Holds
<1>9. \A i \in 1..n : items[i] \in due
  BY <1>8
<1>10. \/ next = NoCursor /\ \A row \in due : \E i \in 1..n : items[i] = row
       \/ n = limit /\ \E last \in due :
            /\ next = spot(last)
            /\ \A row \in due : (\E i \in 1..n : items[i] = row)
                                  <=> (row = last \/ Behind(what, input, spot(row), spot(last)))
  BY <1>2, <1>3, <1>8
<1>11. (next = NoCursor \/ IsCursor(what, input, next)) /\ (next # NoCursor => n = limit)
  BY <1>4, <1>6, <1>10
<1>12. ASSUME NEW row \in table, Wanted(what, input, row)
       PROVE  Passed(what, input, cursor, row) \/ (\E i \in 1..n : items[i] = row)
                <=> next = NoCursor \/ Passed(what, input, next, row)
  <2>1. row \in due <=> ~Passed(what, input, cursor, row)
    BY <1>4, <1>12
  <2>2. CASE next = NoCursor /\ \A x \in due : \E i \in 1..n : items[i] = x
    BY <2>1, <2>2
  <2>3. ASSUME NEW last \in due, next = spot(last),
               \A x \in due : (\E i \in 1..n : items[i] = x) <=> (x = last \/ Behind(what, input, spot(x), spot(last)))
        PROVE  Passed(what, input, cursor, row) \/ (\E i \in 1..n : items[i] = row)
                 <=> next = NoCursor \/ Passed(what, input, next, row)
    <3>1. spot(row) \in Place /\ spot(row).id = row.id /\ spot(last) \in Place /\ spot(last).id = last.id
      BY <1>4, <1>6, <1>12, <2>3
    <3>2. next # NoCursor /\ (Passed(what, input, next, row) <=> ~Behind(what, input, spot(last), spot(row)))
      <4>1. spot(last) # NoCursor
        BY <3>1, PlaceIsCursor
      <4> QED
        BY <2>3, <4>1 DEF Passed, spot
    <3>3. CASE row \in due
      <4>1. row = last => ~Behind(what, input, spot(last), spot(row))
        BY <1>7, <3>1, AfterLine DEF Behind
      <4>2. row # last => row.id # last.id
        BY <1>4, <1>12, <2>3 DEF Keyed
      <4>3. row # last => (Behind(what, input, spot(row), spot(last)) <=> ~Behind(what, input, spot(last), spot(row)))
        BY <1>7, <3>1, <4>2, AfterLine DEF Behind
      <4> QED
        BY <2>1, <2>3, <3>2, <3>3, <4>1, <4>3
    <3>4. CASE row \notin due
      <4>1. cursor # NoCursor /\ ~Behind(what, input, cursor, spot(row)) /\ cursor \in Place
        BY <1>12, <2>1, <3>4 DEF Passed, IsCursor, spot
      <4>2. Behind(what, input, cursor, spot(last))
        BY <1>5, <4>1
      <4>3. ~Behind(what, input, spot(last), spot(row))
        BY <1>7, <3>1, <4>1, <4>2, AfterLine DEF Behind
      <4> QED
        BY <2>1, <3>2, <3>4, <4>3
    <3> QED
      BY <3>3, <3>4
  <2> QED
    BY <1>10, <2>2, <2>3
<1>13. \E m \in Nat : /\ DOMAIN items = 1..m /\ (next # NoCursor => m = limit)
                      /\ \A i \in 1..m : items[i] \in due
                      /\ \A i, j \in 1..m : items[i] = items[j] => i = j
  BY <1>8, <1>9, <1>11
<1>14. \A row \in table :
         Wanted(what, input, row) =>
           (Passed(what, input, cursor, row) \/ (\E i \in DOMAIN items : items[i] = row)
              <=> next = NoCursor \/ Passed(what, input, next, row))
  BY <1>8, <1>12
<1> QED
  BY <1>11, <1>13, <1>14 DEF Covers, due, items, next

\* It adds them to the walk, and nothing twice.
LEMMA PageAdds ==
  ASSUME NEW what \in {"listings", "agents"}, NEW input, what = "listings" => input.sort.dir \in {"asc", "desc"},
         NEW table, Keyed(table), \A x \in table : IsRow(what, x),
         NEW cursor, cursor = NoCursor \/ IsCursor(what, input, cursor), NEW limit \in Nat, NEW page,
         IsPage(page.items, page.nextCursor, Due(what, input, table, cursor),
                DueOrder(what, input, Due(what, input, table, cursor)), limit,
                Spots(what, input, Due(what, input, table, cursor))),
         NEW seen, IsSeq(seen)
  PROVE  /\ page.nextCursor = NoCursor \/ IsCursor(what, input, page.nextCursor)
         /\ IsSeq(Joined(seen, Ids_(page.items)))
         /\ \A row \in table :
              Wanted(what, input, row) /\ Once(seen, row.id)
                 /\ (Met(seen, row.id) <=> Passed(what, input, cursor, row)) =>
                   /\ Once(Joined(seen, Ids_(page.items)), row.id)
                   /\ Met(Joined(seen, Ids_(page.items)), row.id)
                        <=> page.nextCursor = NoCursor \/ Passed(what, input, page.nextCursor, row)
<1> DEFINE due == Due(what, input, table, cursor)
           items == page.items
           next == page.nextCursor
           ids == Ids_(items)
<1>1. /\ next = NoCursor \/ IsCursor(what, input, next)
      /\ \E n \in Nat : /\ DOMAIN items = 1..n
                        /\ \A i \in 1..n : items[i] \in due
                        /\ \A i, j \in 1..n : items[i] = items[j] => i = j
      /\ \A row \in table :
           Wanted(what, input, row) =>
             (Passed(what, input, cursor, row) \/ (\E i \in DOMAIN items : items[i] = row)
                <=> next = NoCursor \/ Passed(what, input, next, row))
  <2>1. limit \in Nat
    OBVIOUS
  <2>2. Covers(what, input, table, cursor, limit, page)
    BY <2>1, PageCovers
  <2> QED
    BY <2>2 DEF Covers
<1>2. due \subseteq table /\ \A row \in table : Wanted(what, input, row) =>
        (row \in due <=> ~Passed(what, input, cursor, row))
  BY DEF Due, Passed
<1> HIDE DEF due, items, next
<1>3. PICK n \in Nat : /\ DOMAIN items = 1..n
                       /\ \A i \in 1..n : items[i] \in due
                       /\ \A i, j \in 1..n : items[i] = items[j] => i = j
  BY <1>1
<1>4. DOMAIN ids = 1..n /\ (\A i \in 1..n : ids[i] = items[i].id /\ items[i] \in due) /\ IsSeq(ids)
  BY <1>3 DEF Ids_, IsSeq
<1> HIDE DEF ids
<1>5. IsSeq(Joined(seen, ids))
  BY <1>4, JoinedMeets
<1>6. ASSUME NEW row \in table, Wanted(what, input, row), Once(seen, row.id),
             Met(seen, row.id) <=> Passed(what, input, cursor, row)
      PROVE  /\ Once(Joined(seen, ids), row.id)
             /\ Met(Joined(seen, ids), row.id) <=> next = NoCursor \/ Passed(what, input, next, row)
  <2>1. \A i \in 1..n : ids[i] = row.id => items[i] = row
    BY <1>2, <1>4, <1>6 DEF Keyed
  <2>2. Once(ids, row.id) /\ (Met(ids, row.id) <=> \E i \in 1..n : items[i] = row)
    BY <1>3, <1>4, <2>1 DEF Once, Met
  <2>3. ~(Met(seen, row.id) /\ Met(ids, row.id))
    BY <1>2, <1>4, <1>6, <2>2
  <2>4. Once(Joined(seen, ids), row.id)
    BY <1>4, <1>6, <2>2, <2>3, JoinedMeets
  <2>5. Met(Joined(seen, ids), row.id) <=> Met(seen, row.id) \/ \E i \in 1..n : items[i] = row
    BY <1>4, <2>2, JoinedMeets
  <2> QED
    BY <1>1, <1>3, <1>6, <2>4, <2>5
<1> QED
  BY <1>1, <1>5, <1>6 DEF ids, items, next

TableOf(what) == IF what = "agents" THEN agents ELSE rows
NextTableOf(what) == IF what = "agents" THEN agents' ELSE rows'

\* A client's walk: its cursor is one the list gave out, and it has met, once, the
\* rows that stay and that its cursor has passed.
TileInv ==
  walk.what # "nothing" =>
    /\ \E w \in Inputs : walk.what = w.what /\ walk.input = w.input
    /\ IsSeq(walk.seen)
    /\ walk.cursor = NoCursor \/ IsCursor(walk.what, walk.input, walk.cursor)
    /\ walk.done \in BOOLEAN
    /\ \A id \in walk.steady :
         \E row \in TableOf(walk.what) :
           /\ row.id = id /\ Wanted(walk.what, walk.input, row)
           /\ Once(walk.seen, id)
           /\ Met(walk.seen, id) <=> walk.done \/ Passed(walk.what, walk.input, walk.cursor, row)

LEMMA TileKept ==
  ASSUME TileInv, walk'.what = walk.what, walk'.input = walk.input, walk'.cursor = walk.cursor,
         walk'.seen = walk.seen, walk'.done = walk.done, walk'.steady \subseteq walk.steady,
         walk.what # "nothing" => \A id \in walk'.steady, row \in TableOf(walk.what) :
                                    row.id = id => row \in NextTableOf(walk.what)
  PROVE  TileInv'
<1> SUFFICES ASSUME walk.what # "nothing" PROVE TileInv'
  BY DEF TileInv
<1> DEFINE what == walk.what
           input == walk.input
           cursor == walk.cursor
           seen == walk.seen
<1>1. /\ \E w \in Inputs : what = w.what /\ input = w.input
      /\ IsSeq(seen) /\ (cursor = NoCursor \/ IsCursor(what, input, cursor)) /\ walk.done \in BOOLEAN
  BY DEF TileInv
<1>2. \A id \in walk'.steady :
        \E row \in NextTableOf(what) :
          /\ row.id = id /\ Wanted(what, input, row)
          /\ Once(seen, id)
          /\ Met(seen, id) <=> walk.done \/ Passed(what, input, cursor, row)
  BY DEF TileInv
<1> QED
  BY <1>1, <1>2 DEF TileInv, TableOf, NextTableOf

\* One page of a walk, from the list it walks through.
PageOf(what, input, table, cursor) ==
  IF what = "agents" THEN listAgents(table, input.filter.outcodes, TRUE, cursor, input.limit)
  ELSE list(table, [input EXCEPT !.cursor = cursor])

LEMMA WalkPage ==
  ASSUME NEW what, NEW input, \E w \in Inputs : what = w.what /\ input = w.input,
         NEW table, IsFiniteSet(table), Keyed(table), \A x \in table : IsRow(what, x),
         NEW cursor, cursor = NoCursor \/ IsCursor(what, input, cursor)
  PROVE  LET page == PageOf(what, input, table, cursor)
             due == Due(what, input, table, cursor)
         IN  IsPage(page.items, page.nextCursor, due, DueOrder(what, input, due), clampLimit(input.limit),
                    Spots(what, input, due))
<1>1. /\ what \in {"listings", "agents"} /\ input.limit \in Int /\ input.sort.dir \in {"asc", "desc"}
      /\ input = [filter |-> input.filter, sort |-> input.sort, cursor |-> NoCursor,
                  limit |-> input.limit, search |-> input.search]
  BY InputAssumption
<1>2. CASE what = "agents"
  <2>1. cursor = NoCursor \/ (cursor \in Place /\ cursor.isNull)
    BY <1>2 DEF IsCursor
  <2>2. \A x \in table : IsAgent(x)
    BY <1>2 DEF IsRow
  <2> QED
    BY <1>1, <1>2, <2>1, <2>2, AgentsPage DEF PageOf
<1>3. CASE what = "listings"
  <2> DEFINE at == [input EXCEPT !.cursor = cursor]
  <2>1. /\ at.cursor = cursor /\ at.limit = input.limit /\ at.sort = input.sort
        /\ at.filter = input.filter /\ at.search = input.search
    BY <1>1
  <2>2. \A x \in table : IsListing(x)
    BY <1>3 DEF IsRow
  <2> HIDE DEF at
  <2>3. at.cursor = NoCursor \/ IsCursor("listings", at, at.cursor)
    BY <1>3, <2>1 DEF IsCursor, Column
  <2> DEFINE page == list(table, at)
             due == Due("listings", at, table, at.cursor)
  <2>4. IsPage(page.items, page.nextCursor, due, DueOrder("listings", at, due), clampLimit(at.limit),
               Spots("listings", at, due))
    BY <1>1, <2>1, <2>2, <2>3, ListingsPage
  <2>5. /\ \A row : Wanted("listings", at, row) <=> Wanted("listings", input, row)
        /\ \A row : Spot("listings", at, row) = Spot("listings", input, row)
        /\ \A p, q : Behind("listings", at, p, q) <=> Behind("listings", input, p, q)
    BY <2>1 DEF Wanted, Spot, Behind, Way, NullsFirst, Column
  <2>6. due = Due("listings", input, table, cursor)
    BY <2>1, <2>5 DEF Due
  <2>7. \A S : DueOrder("listings", at, S) = DueOrder("listings", input, S)
    BY <2>5 DEF DueOrder
  <2>8. \A S : Spots("listings", at, S) = Spots("listings", input, S)
    BY <2>5 DEF Spots
  <2>9. page = PageOf(what, input, table, cursor)
    BY <1>3 DEF PageOf, at
  <2> HIDE DEF page, due
  <2> QED
    BY <1>3, <2>1, <2>4, <2>6, <2>7, <2>8, <2>9
<1> QED
  BY <1>1, <1>2, <1>3

LEMMA TileFrom ==
  ASSUME NEW what, NEW input, NEW cursor, NEW seen, NEW done \in BOOLEAN,
         walk'.what = what, walk'.input = input, walk'.cursor = cursor, walk'.seen = seen, walk'.done = done,
         \E w \in Inputs : what = w.what /\ input = w.input,
         IsSeq(seen), cursor = NoCursor \/ IsCursor(what, input, cursor),
         \A id \in walk'.steady :
           \E row \in NextTableOf(what) :
             /\ row.id = id /\ Wanted(what, input, row) /\ Once(seen, id)
             /\ Met(seen, id) <=> done \/ Passed(what, input, cursor, row)
  PROVE  TileInv'
  BY DEF TileInv, TableOf, NextTableOf

LEMMA WalkTile ==
  ASSUME Tables, Shapes, TileInv, WalkOn PROVE TileInv'
<1> DEFINE what == walk.what
           input == walk.input
           cursor == walk.cursor
           seen == walk.seen
           table == TableOf(what)
           page == PageOf(what, input, table, cursor)
<1>1. ~walk.done /\ UNCHANGED <<rows, agents>>
  BY DEF WalkOn, server
<1>2. walk' = [walk EXCEPT !.seen = Joined(seen, Ids_(page.items)),
                           !.cursor = page.nextCursor, !.done = page.nextCursor = NoCursor]
  BY Zenon DEF WalkOn, Joined, Ids_, PageOf, TableOf
<1>3. /\ walk'.what = what /\ walk'.input = input /\ walk'.steady = walk.steady
      /\ walk'.seen = Joined(seen, Ids_(page.items)) /\ walk'.cursor = page.nextCursor
      /\ walk'.done = (page.nextCursor = NoCursor)
  <2> HIDE DEF page
  <2> QED
    BY <1>2 DEF Shapes
<1> SUFFICES ASSUME what # "nothing" PROVE TileInv'
  BY <1>3 DEF TileInv
<1>4. /\ \E w \in Inputs : what = w.what /\ input = w.input
      /\ IsSeq(seen) /\ (cursor = NoCursor \/ IsCursor(what, input, cursor))
      /\ \A id \in walk.steady :
           \E row \in table : /\ row.id = id /\ Wanted(what, input, row) /\ Once(seen, id)
                              /\ Met(seen, id) <=> walk.done \/ Passed(what, input, cursor, row)
  BY DEF TileInv
<1>5. what \in {"listings", "agents"} /\ input.sort.dir \in {"asc", "desc"}
  BY <1>4, InputAssumption
<1>6. IsFiniteSet(table) /\ Keyed(table) /\ \A x \in table : IsRow(what, x)
  BY <1>5, AgentsFinite DEF Tables, TableOf, IsRow
<1> HIDE DEF table
<1>7. IsPage(page.items, page.nextCursor, Due(what, input, table, cursor),
             DueOrder(what, input, Due(what, input, table, cursor)), clampLimit(input.limit),
             Spots(what, input, Due(what, input, table, cursor)))
  BY <1>4, <1>6, WalkPage
<1>15. clampLimit(input.limit) \in Nat
  BY <1>4, InputAssumption, LimitIs
<1> HIDE DEF page
<1> HIDE DEF what, input, cursor, seen
<1>8. /\ page.nextCursor = NoCursor \/ IsCursor(what, input, page.nextCursor)
      /\ IsSeq(Joined(seen, Ids_(page.items)))
      /\ \A row \in table :
           Wanted(what, input, row) /\ Once(seen, row.id)
              /\ (Met(seen, row.id) <=> Passed(what, input, cursor, row)) =>
                /\ Once(Joined(seen, Ids_(page.items)), row.id)
                /\ Met(Joined(seen, Ids_(page.items)), row.id)
                     <=> page.nextCursor = NoCursor \/ Passed(what, input, page.nextCursor, row)
  BY <1>4, <1>5, <1>6, <1>7, <1>15, PageAdds
<1>9. \A id \in walk.steady :
        \E row \in table :
          /\ row.id = id /\ Wanted(what, input, row) /\ Once(Joined(seen, Ids_(page.items)), id)
          /\ Met(Joined(seen, Ids_(page.items)), id)
               <=> page.nextCursor = NoCursor \/ Passed(what, input, page.nextCursor, row)
  BY <1>1, <1>4, <1>8
<1>10. NextTableOf(what) = table
  BY <1>1 DEF table, TableOf, NextTableOf
<1> DEFINE next == page.nextCursor
           after == Joined(seen, Ids_(page.items))
           done == (next = NoCursor)
<1>11. /\ done \in BOOLEAN /\ walk'.what = what /\ walk'.input = input /\ walk'.cursor = next
       /\ walk'.seen = after /\ walk'.done = done
  BY <1>3
<1>12. IsSeq(after) /\ (next = NoCursor \/ IsCursor(what, input, next))
  BY <1>8
<1>13. \A id \in walk'.steady :
         \E row \in NextTableOf(what) :
           /\ row.id = id /\ Wanted(what, input, row) /\ Once(after, id)
           /\ Met(after, id) <=> done \/ Passed(what, input, next, row)
  BY <1>3, <1>9, <1>10
<1>14. \E w \in Inputs : what = w.what /\ input = w.input
  BY <1>4
<1> HIDE DEF next, after, done
<1> QED
  BY <1>11, <1>12, <1>13, <1>14, TileFrom

LEMMA InitTile == Init => TileInv
<1> SUFFICES ASSUME Init, walk.what # "nothing" PROVE TileInv
  BY DEF TileInv
<1>1. walk \in {NoWalk} \union {Walking(w) : w \in Inputs}
  BY Zenon DEF Init, Walking
<1>2. NoWalk.what = "nothing"
  BY DEF NoWalk
<1>3. PICK w \in Inputs : walk = Walking(w)
  BY <1>1, <1>2
<1>4. /\ walk.what = w.what /\ walk.input = w.input /\ walk.cursor = NoCursor /\ walk.seen = <<>>
      /\ walk.done = FALSE /\ walk.steady = Sought(w.what, w.input)
  BY <1>3 DEF Walking, NoWalk
<1>5. IsSeq(walk.seen) /\ \A id : Once(walk.seen, id) /\ ~Met(walk.seen, id)
  BY <1>4 DEF IsSeq, Once, Met
<1>6. \A id \in Sought(w.what, w.input) :
        \E row \in TableOf(w.what) : row.id = id /\ Wanted(w.what, w.input, row)
  BY DEF Sought, TableOf, Wanted
<1> QED
  BY <1>4, <1>5, <1>6 DEF TileInv, Passed

LEMMA NextTile == Tables /\ Shapes /\ TileInv /\ [Next]_vars => TileInv'
<1> SUFFICES ASSUME Tables, Shapes, TileInv, [Next]_vars PROVE TileInv'
  OBVIOUS
<1>1. ASSUME UNCHANGED <<server, walk>> PROVE TileInv'
  BY <1>1, TileKept DEF server, TableOf, NextTableOf
<1>2. CASE Marks \/ UndoExpires \/ clearShownInterest
  BY <1>1, <1>2, ScreenFrame
<1>3. CASE Navigate
  BY <1>1, <1>3, NavigateFrame
<1>4. CASE Desk
  BY <1>1, <1>4, DeskFrame
<1>5. CASE \E q \in Queries : Fetch(q)
  BY <1>1, <1>5, FetchFrame
<1>6. ASSUME NEW i \in DOMAIN requests, NEW outcome, Settle(i, outcome) PROVE TileInv'
  <2>1. walk' = IF walk.what = "agents" THEN [walk EXCEPT !.steady = @ \intersect {a.id : a \in agents'}] ELSE walk
    BY Zenon, <1>6 DEF Settle
  <2>2. rows' = rows /\ agents' \subseteq agents
    BY <1>6, SettleTables
  <2>3. CASE walk.what = "agents"
    <3>1. walk' = [walk EXCEPT !.steady = @ \intersect {a.id : a \in agents'}]
      BY <2>1, <2>3
    <3>2. /\ walk'.what = walk.what /\ walk'.input = walk.input /\ walk'.cursor = walk.cursor
          /\ walk'.seen = walk.seen /\ walk'.done = walk.done
          /\ walk'.steady = walk.steady \intersect {a.id : a \in agents'}
      BY <3>1 DEF Shapes
    <3>3. \A id \in walk'.steady, row \in agents : row.id = id => row \in agents'
      BY <2>2, <3>2 DEF Tables, Keyed
    <3> QED
      BY <2>3, <3>2, <3>3, TileKept DEF TableOf, NextTableOf
  <2>4. CASE walk.what # "agents"
    BY <2>1, <2>2, <2>4, TileKept DEF TableOf, NextTableOf
  <2> QED
    BY <2>3, <2>4
<1>7. ASSUME NEW id, walk' = [walk EXCEPT !.steady = @ \ {id}],
             \A row \in rows : row.id # id => row \in rows',
             \A a \in agents : a.id # id => a \in agents'
      PROVE  TileInv'
  <2>1. /\ walk'.what = walk.what /\ walk'.input = walk.input /\ walk'.cursor = walk.cursor
        /\ walk'.seen = walk.seen /\ walk'.done = walk.done /\ walk'.steady = walk.steady \ {id}
    BY <1>7 DEF Shapes
  <2> QED
    BY <1>7, <2>1, TileKept DEF TableOf, NextTableOf
<1>8. CASE Reobserve
  <2>1. PICK row : /\ rows' = {row} \union {r \in rows : r.id # row.id}
                   /\ walk' = [walk EXCEPT !.steady = @ \ {row.id}] /\ agents' = agents
    BY <1>8, ReobserveIs
  <2> QED
    BY <1>7, <2>1
<1>9. CASE Pool
  <2>1. ASSUME NEW a, agents' = agents \union {a}, UNCHANGED <<walk, rows>> PROVE TileInv'
    BY <2>1, TileKept DEF TableOf, NextTableOf
  <2>2. ASSUME NEW a \in agents, NEW b, agents' = (agents \ {a}) \union {b}, UNCHANGED rows,
               walk' = [walk EXCEPT !.steady = @ \ {a.id}]
        PROVE  TileInv'
    <3>1. \A c \in agents : c.id # a.id => c \in agents'
      BY <2>2
    <3> QED
      BY <1>7, <2>2, <3>1
  <2>3. ASSUME UNCHANGED <<agents, walk, rows>> PROVE TileInv'
    BY <2>3, TileKept DEF TableOf, NextTableOf
  <2> QED
    BY <1>9, <2>1, <2>2, <2>3, PoolIs
<1>10. CASE WalkOn
  BY <1>10, WalkTile
<1>11. UNCHANGED vars => UNCHANGED <<server, walk>>
  BY DEF vars
<1> QED
  BY <1>1, <1>2, <1>3, <1>4, <1>5, <1>6, <1>8, <1>9, <1>10, <1>11 DEF Next

LEMMA TileTells == TileInv => PagesTile
<1> SUFFICES ASSUME TileInv, walk.what # "nothing", NEW id \in walk.steady
             PROVE  LET times == Cardinality({i \in DOMAIN walk.seen : walk.seen[i] = id})
                    IN  times <= 1 /\ (walk.done => times = 1)
  BY DEF PagesTile
<1> DEFINE at == {i \in DOMAIN walk.seen : walk.seen[i] = id}
<1>1. Once(walk.seen, id) /\ (walk.done => Met(walk.seen, id))
  BY DEF TileInv
<1>2. CASE Met(walk.seen, id)
  <2>1. PICK i \in DOMAIN walk.seen : walk.seen[i] = id
    BY <1>2 DEF Met
  <2>2. at = {i}
    BY <1>1, <2>1 DEF Once
  <2>3. Cardinality(at) = 1
    BY <2>2, FS_Singleton
  <2> HIDE DEF at
  <2> QED
    BY <2>3 DEF at
<1>3. CASE ~Met(walk.seen, id)
  <2>1. at = {}
    BY <1>3 DEF Met
  <2>2. Cardinality(at) = 0
    BY <2>1, FS_EmptySet
  <2> HIDE DEF at
  <2> QED
    BY <1>1, <1>3, <2>2 DEF at
<1> QED
  BY <1>2, <1>3

\* Whoever pages through a list, of any length and in pages of any size, meets once
\* every row that stayed as it was since the first page, in every order and under
\* every filter and lens, while rows change place, come and go between two pages
\* (listing.repository list and listByCombinedScore, agent.repository list, the
\* cursor filters of both).
THEOREM EveryPageTiles == Spec => []PagesTile
<1>1. Init => Tables /\ Shapes /\ TileInv
  BY InitTables, InitShapes, InitTile
<1>2. Tables /\ Shapes /\ TileInv /\ [Next]_vars => (Tables /\ Shapes /\ TileInv)'
  BY NextTables, NextShapes, NextTile
<1>3. Tables /\ Shapes /\ TileInv => PagesTile
  BY TileTells
<1> QED
  BY <1>1, <1>2, <1>3, PTL DEF Spec
-----------------------------------------------------------------------------
(* Forms and the searches they become *)

IsBrief(search) == IsSearch(search) /\ search.id \in SearchIds

\* What the editor shows and what it sends is a form; what the list of searches
\* shows was a search.
BriefInv ==
  /\ \A search \in searches \union Data(Q("searches")) : IsBrief(search)
  /\ dialog.kind = "edit" => IsForm(dialog.form)
  /\ \A i \in DOMAIN requests : requests[i].kind \in {"create", "update"} => IsForm(requests[i].what)

LEMMA TextWith ==
  ASSUME NEW core, NEW padded, NEW stopped, NEW new
  PROVE  [Text(core, padded, stopped) EXCEPT !.padded = new] = Text(core, new, stopped)
  BY DEF Text

LEMMA TextParts ==
  \A core, padded, stopped :
    /\ Text(core, padded, stopped).core = core
    /\ Text(core, padded, stopped) = Blank <=> core = Nothing /\ padded = FALSE /\ stopped = FALSE
  BY Zenon DEF Text, Blank

LEMMA TextIs ==
  /\ \A core, stopped : \A padded \in BOOLEAN : IsText(Text(core, padded, stopped))
  /\ \A text : IsText(text) => IsText(Trim(text)) /\ Trim(text) = Text(text.core, FALSE, text.stopped)
<1>1. ASSUME NEW core, NEW stopped, NEW padded \in BOOLEAN PROVE IsText(Text(core, padded, stopped))
  BY DEF IsText, Text
<1>2. ASSUME NEW text, IsText(text) PROVE Trim(text) = Text(text.core, FALSE, text.stopped)
  <2> DEFINE core == text.core
             padded == text.padded
             stopped == text.stopped
  <2>1. text = Text(core, padded, stopped)
    BY <1>2 DEF IsText
  <2> HIDE DEF core, padded, stopped
  <2>2. Trim(Text(core, padded, stopped)) = Text(core, FALSE, stopped)
    <3> DEFINE no == FALSE
    <3> HIDE DEF no
    <3>1. [Text(core, padded, stopped) EXCEPT !.padded = no] = Text(core, no, stopped)
      BY TextWith
    <3> QED
      BY Zenon, <3>1 DEF Trim, no
  <2> QED
    BY <2>1, <2>2 DEF core, stopped
<1> QED
  BY <1>1, <1>2

LEMMA BlankIsForm == IsForm(BLANK)
<1>1. IsText(Blank)
  BY TextIs DEF Blank
<1> QED
  BY <1>1 DEF IsForm, BLANK, NoValue

LEMMA SavedIs ==
  ASSUME NEW form, IsForm(form)
  PROVE  LET base == save(form)
         IN  /\ base.minBedrooms \in Int /\ base.maxPricePence \in Int
             /\ IsText(base.name) /\ IsText(base.location) /\ IsText(base.keywords)
<1>1. IsText(form.name) /\ IsText(form.location) /\ IsText(form.keywords)
  BY DEF IsForm
<1>2. IsText(Trim(form.name)) /\ IsText(Trim(form.location))
  BY <1>1, TextIs
<1>3. form.minBeds \in Int \union {Junk} /\ form.maxPrice \in Int
  BY DEF IsForm
<1> QED
  BY <1>1, <1>2, <1>3 DEF save, NoValue

LEMMA RowIsSearch ==
  ASSUME NEW form, IsForm(form), NEW id \in SearchIds PROVE IsBrief(RowOf(id, save(form)))
<1> DEFINE base == save(form)
<1>1. /\ base.minBedrooms \in Int /\ base.maxPricePence \in Int
      /\ IsText(base.name) /\ IsText(base.location) /\ IsText(base.keywords)
  BY SavedIs
<1>2. DOMAIN RowOf(id, base) = DOMAIN save(BLANK) \union {"id", "outcodes"}
  BY DEF RowOf, save
<1> HIDE DEF base
<1>3. IsBrief(RowOf(id, base))
  BY <1>1, <1>2 DEF IsBrief, IsSearch, RowOf
<1> QED
  BY <1>3 DEF base

LEMMA FormIs == ASSUME NEW search, IsSearch(search) PROVE IsForm(formFromSearch(search))
<1>1. IsText(search.name) /\ IsText(search.location) /\ IsText(search.keywords)
      /\ search.minBedrooms \in Int /\ search.maxPricePence \in Int
  BY DEF IsSearch
<1>2. DOMAIN formFromSearch(search) = DOMAIN BLANK
  BY DEF formFromSearch, BLANK
<1> DEFINE price == IF search.maxPricePence = NoValue THEN NoValue ELSE (search.maxPricePence + 50) \div 100
<1>3. price \in Int
  BY <1>1 DEF NoValue
<1>4. formFromSearch(search).maxPrice = price
  BY DEF formFromSearch
<1> HIDE DEF price
<1>5. formFromSearch(search).minBeds \in Int /\ formFromSearch(search).maxPrice \in Int
  BY <1>1, <1>3, <1>4 DEF formFromSearch
<1>6. \A text \in {formFromSearch(search).name, formFromSearch(search).location, formFromSearch(search).keywords} :
        IsText(text)
  BY <1>1 DEF formFromSearch
<1> QED
  BY <1>2, <1>5, <1>6 DEF IsForm

LEMMA EmailIs ==
  ASSUME NEW p, NEW q, p = Blank <=> q = Blank, p.core = q.core, NEW types, NEW beds, NEW price, NEW taste,
         NEW x, NEW y, x.condition = y.condition, x.land = y.land, x.saleMethods = y.saleMethods, NEW sender
  PROVE  Email(p, types, beds, price, taste, x, sender) = Email(q, types, beds, price, taste, y, sender)
<1>1. (IF p = Blank THEN "your area" ELSE p.core) = (IF q = Blank THEN "your area" ELSE q.core)
  BY Zenon
<1> QED
  BY Zenon, <1>1 DEF Email

\* The email of a form is that of its row, and the form of a row saves as the row.
LEMMA FormIsItsRow ==
  ASSUME NEW form, IsForm(form), NEW sender
  PROVE  LET row == RowOf(Spare, save(form))
         IN  /\ form.location # Text(Nothing, TRUE, FALSE) => previewEmail(form, sender) = draftSearchEmail(row, sender)
             /\ save(formFromSearch(row)) = save(form)
<1> DEFINE row == RowOf(Spare, save(form))
           beds == form.minBeds
           price == form.maxPrice
           rowBeds == IF beds = Junk \/ beds <= 0 THEN NoValue ELSE beds
           rowPrice == IF price = NoValue THEN NoValue ELSE 100 * price
           formPrice == IF rowPrice = NoValue THEN NoValue ELSE (rowPrice + 50) \div 100
<1>1. IsText(form.name) /\ IsText(form.location) /\ beds \in Int \union {Junk} /\ price \in Int
  BY DEF IsForm
<1>2. /\ row.name = Trim(form.name) /\ row.location = Trim(form.location) /\ row.types = form.types
      /\ row.condition = form.condition /\ row.land = form.land /\ row.saleMethods = form.saleMethods
      /\ row.minBedrooms = rowBeds /\ row.maxPricePence = rowPrice
      /\ row.keywords = form.keywords /\ row.status = form.status
  BY DEF RowOf, save
<1>3. (IF beds # Junk /\ beds > 0 THEN beds ELSE NoValue)
        = (IF rowBeds # NoValue /\ rowBeds # 0 THEN rowBeds ELSE NoValue)
  BY <1>1 DEF NoValue
<1>4. (IF price > 0 THEN price ELSE NoValue) = (IF rowPrice > 0 THEN (rowPrice + 50) \div 100 ELSE NoValue)
  BY <1>1 DEF NoValue
<1>5. (IF rowBeds = Junk \/ rowBeds <= 0 THEN NoValue ELSE rowBeds) = rowBeds
  BY <1>1 DEF NoValue
<1>6. (IF formPrice = NoValue THEN NoValue ELSE 100 * formPrice) = rowPrice
  BY <1>1 DEF NoValue
<1>7. Trim(Trim(form.name)) = Trim(form.name) /\ Trim(Trim(form.location)) = Trim(form.location)
  BY <1>1, TextIs DEF Trim, Text
<1>8. ASSUME form.location # Text(Nothing, TRUE, FALSE)
      PROVE  /\ form.location = Blank <=> Trim(form.location) = Blank
             /\ form.location.core = Trim(form.location).core
  <2> DEFINE core == form.location.core
             padded == form.location.padded
             stopped == form.location.stopped
  <2>1. form.location = Text(core, padded, stopped) /\ padded \in BOOLEAN
    BY <1>1 DEF IsText
  <2>2. Trim(form.location) = Text(core, FALSE, stopped)
    BY <1>1, TextIs
  <2> HIDE DEF core, padded, stopped
  <2>3. ~(core = Nothing /\ padded = TRUE /\ stopped = FALSE)
    BY <1>8, <2>1
  <2>4. padded = TRUE \/ padded = FALSE
    BY <2>1
  <2>5. form.location = Blank <=> core = Nothing /\ padded = FALSE /\ stopped = FALSE
    BY Zenon, <2>1, TextParts
  <2>6. Trim(form.location) = Blank <=> core = Nothing /\ stopped = FALSE
    BY Zenon, <2>2, TextParts
  <2>7. form.location.core = core /\ Trim(form.location).core = core
    <3>1. Text(core, padded, stopped).core = core /\ Text(core, FALSE, stopped).core = core
      BY TextParts
    <3> QED
      BY <2>1, <2>2, <3>1
  <2> QED
    BY Zenon, <2>3, <2>4, <2>5, <2>6, <2>7
<1> HIDE DEF row, beds, price, rowBeds, rowPrice, formPrice
<1>9. ASSUME form.location # Text(Nothing, TRUE, FALSE)
      PROVE  previewEmail(form, sender) = draftSearchEmail(row, sender)
  <2> DEFINE shownBeds == IF beds # Junk /\ beds > 0 THEN beds ELSE NoValue
             shownPrice == IF price > 0 THEN price ELSE NoValue
  <2>1. previewEmail(form, sender)
          = Email(form.location, form.types, shownBeds, shownPrice, Tidy(form.keywords), form, sender)
    BY Zenon DEF previewEmail, beds, price
  <2>2. draftSearchEmail(row, sender)
          = Email(Trim(form.location), form.types, IF rowBeds # NoValue /\ rowBeds # 0 THEN rowBeds ELSE NoValue,
                  IF rowPrice > 0 THEN (rowPrice + 50) \div 100 ELSE NoValue, Tidy(form.keywords), row, sender)
    BY Zenon, <1>2 DEF draftSearchEmail
  <2>3. draftSearchEmail(row, sender)
          = Email(Trim(form.location), form.types, shownBeds, shownPrice, Tidy(form.keywords), row, sender)
    BY Zenon, <1>3, <1>4, <2>2
  <2> DEFINE place == Trim(form.location)
  <2>4. (form.location = Blank <=> place = Blank) /\ form.location.core = place.core
    BY <1>8, <1>9
  <2>5. form.condition = row.condition /\ form.land = row.land /\ form.saleMethods = row.saleMethods
    BY <1>2
  <2> HIDE DEF shownBeds, shownPrice, place
  <2>6. Email(form.location, form.types, shownBeds, shownPrice, Tidy(form.keywords), form, sender)
          = Email(place, form.types, shownBeds, shownPrice, Tidy(form.keywords), row, sender)
    BY <2>4, <2>5, EmailIs
  <2> QED
    BY <2>1, <2>3, <2>6 DEF place
<1>10. save(formFromSearch(row)) = save(form)
  <2> DEFINE again == formFromSearch(row)
  <2>1. /\ again.name = Trim(form.name) /\ again.location = Trim(form.location) /\ again.types = form.types
        /\ again.condition = form.condition /\ again.land = form.land /\ again.saleMethods = form.saleMethods
        /\ again.minBeds = rowBeds /\ again.maxPrice = formPrice
        /\ again.keywords = form.keywords /\ again.status = form.status
    BY <1>2 DEF formFromSearch, formPrice
  <2> HIDE DEF again
  <2>2. save(again) = [name |-> Trim(form.name), location |-> Trim(form.location), types |-> form.types,
                       condition |-> form.condition, land |-> form.land, saleMethods |-> form.saleMethods,
                       minBedrooms |-> rowBeds, maxPricePence |-> rowPrice,
                       keywords |-> form.keywords, status |-> form.status]
    BY <1>5, <1>6, <1>7, <2>1 DEF save
  <2>3. save(form) = [name |-> Trim(form.name), location |-> Trim(form.location), types |-> form.types,
                      condition |-> form.condition, land |-> form.land, saleMethods |-> form.saleMethods,
                      minBedrooms |-> rowBeds, maxPricePence |-> rowPrice,
                      keywords |-> form.keywords, status |-> form.status]
    BY DEF save, rowBeds, rowPrice, beds, price
  <2> QED
    BY <2>2, <2>3 DEF again
<1> QED
  BY <1>9, <1>10 DEF row

LEMMA LiveIs == ASSUME BriefInv, NEW id, Live(id) PROVE id \in SearchIds
  BY DEF BriefInv, Live, IsBrief

LEMMA PausedIs ==
  ASSUME NEW search, IsBrief(search), NEW status PROVE IsBrief([search EXCEPT !.status = status])
<1> DEFINE after == [search EXCEPT !.status = status]
<1>1. DOMAIN search = DOMAIN save(BLANK) \union {"id", "outcodes"}
  BY DEF IsBrief, IsSearch
<1>2. DOMAIN save(BLANK) = {"name", "location", "types", "condition", "land", "saleMethods", "minBedrooms",
                            "maxPricePence", "keywords", "status"}
  BY DEF save
<1>3. /\ DOMAIN after = DOMAIN search /\ after.id = search.id /\ after.name = search.name
      /\ after.location = search.location /\ after.keywords = search.keywords
      /\ after.minBedrooms = search.minBedrooms /\ after.maxPricePence = search.maxPricePence
  BY <1>1, <1>2
<1> HIDE DEF after
<1>4. IsBrief(after)
  BY <1>1, <1>3 DEF IsBrief, IsSearch
<1> QED
  BY <1>4 DEF after

LEMMA EffectOnSearches ==
  ASSUME Shapes, BriefInv, NEW i \in DOMAIN requests, NEW q, Effect(requests[i], q)
  PROVE  \A search \in searches' : IsBrief(search)
<1> DEFINE r == requests[i]
<1>1. \A search \in searches : IsBrief(search)
  BY DEF BriefInv
<1>2. q.kind = r.kind /\ q.on = r.on /\ q.kind \in Kinds /\ Carry(q) /\ (q.kind # "approve" => q.what = r.what /\ Found(r))
  BY DEF Effect
<1>3. CASE q.kind \notin {"create", "update", "setStatus", "remove"}
  BY <1>1, <1>2, <1>3, CarryFrame DEF Shapes
<1>4. CASE q.kind = "create"
  <2>1. searches' = searches \union {RowOf(Spare, save(q.what))}
    BY <1>2, <1>4 DEF Carry, create
  <2>2. IsForm(q.what)
    BY <1>2, <1>4 DEF BriefInv
  <2>3. IsBrief(RowOf(Spare, save(q.what)))
    BY <2>2, RowIsSearch DEF SearchIds
  <2> QED
    BY <1>1, <2>1, <2>3
<1>5. CASE q.kind = "update"
  <2>1. searches' = {s \in searches : s.id # q.on} \union {RowOf(q.on, save(q.what))}
    BY <1>2, <1>5 DEF Carry, update
  <2>2. IsForm(q.what) /\ q.on \in SearchIds
    BY <1>2, <1>5, LiveIs DEF BriefInv, Found
  <2>3. IsBrief(RowOf(q.on, save(q.what)))
    BY <2>2, RowIsSearch
  <2> QED
    BY <1>1, <2>1, <2>3
<1>6. CASE q.kind = "setStatus"
  <2>1. searches' = {IF s.id = q.on THEN [s EXCEPT !.status = q.what] ELSE s : s \in searches}
    BY <1>2, <1>6 DEF Carry, setStatus
  <2>2. \A s \in searches : IsBrief(IF s.id = q.on THEN [s EXCEPT !.status = q.what] ELSE s)
    BY <1>1, PausedIs
  <2> QED
    BY <2>1, <2>2
<1>7. CASE q.kind = "remove"
  <2>1. searches' = searches \ {SearchOf(q.on)}
    BY <1>2, <1>7 DEF Carry, removeSearch
  <2> QED
    BY <1>1, <2>1
<1> QED
  BY <1>2, <1>3, <1>4, <1>5, <1>6, <1>7 DEF Kinds

LEMMA SearchesStayBriefs ==
  ASSUME Shapes, BriefInv, [Next]_vars PROVE \A search \in searches' : IsBrief(search)
<1>1. CASE searches' = searches
  BY <1>1 DEF BriefInv
<1>2. UNCHANGED server => searches' = searches
  BY DEF server
<1>3. CASE Marks \/ UndoExpires \/ clearShownInterest
  BY <1>1, <1>2, <1>3, ScreenFrame
<1>4. CASE Navigate
  BY <1>1, <1>2, <1>4, NavigateFrame
<1>5. CASE Desk
  BY <1>1, <1>2, <1>5, DeskFrame
<1>6. CASE \E q \in Queries : Fetch(q)
  BY <1>1, <1>2, <1>6, FetchFrame
<1>7. ASSUME NEW i \in DOMAIN requests, NEW outcome, Settle(i, outcome) PROVE \A search \in searches' : IsBrief(search)
  BY <1>1, <1>2, <1>7, SettleServer, EffectOnSearches
<1>8. CASE Reobserve \/ Pool
  BY <1>1, <1>8, ElsewhereIs
<1>9. WalkOn \/ UNCHANGED vars => UNCHANGED server
  BY DEF WalkOn, vars
<1> QED
  BY <1>1, <1>2, <1>3, <1>4, <1>5, <1>6, <1>7, <1>8, <1>9 DEF Next

LEMMA AnswerSearches == Answer(Q("searches")) = searches
  BY DEF Answer, Q

LEMMA TypedIs ==
  ASSUME Shapes, dialog.kind = "edit", IsForm(dialog.form), NEW place
  PROVE  Typed(place).kind = "edit" /\ IsForm(Typed(place).form)
<1> DEFINE text == Text(place, FALSE, FALSE)
           form == [[dialog.form EXCEPT !.location = text] EXCEPT !.name = text]
           after == [dialog EXCEPT !.form = form]
<1>1. IsText(text)
  BY TextIs
<1> HIDE DEF text
<1>2. DOMAIN BLANK = {"id", "name", "location", "types", "condition", "land", "saleMethods", "minBeds", "maxPrice",
                      "keywords", "status"}
  BY DEF BLANK
<1>3. IsForm(form)
  BY <1>1, <1>2 DEF IsForm
<1>4. DOMAIN dialog = {"kind", "search", "form", "checked", "shown", "seeded", "sent"}
  BY DEF Shapes
<1>5. Typed(place) = after
  BY Zenon, <1>4 DEF Typed, text
<1> HIDE DEF form
<1>6. after.kind = "edit" /\ after.form = form
  BY <1>4
<1> QED
  BY <1>3, <1>5, <1>6

LEMMA DialogStaysForm ==
  ASSUME Shapes, BriefInv, DialogMoves, dialog'.kind = "edit" PROVE IsForm(dialog'.form)
<1>1. DOMAIN dialog = DOMAIN NoDialog /\ DOMAIN NoDialog = {"kind", "search", "form", "checked", "shown", "seeded", "sent"}
  BY DEF Shapes, NoDialog
<1>2. \A kind, search : DOMAIN Opened(kind, search) = DOMAIN NoDialog /\ Opened(kind, search).kind = kind
  BY <1>1 DEF Opened
<1>3. \A form : Editing(form).form = form
  BY <1>1 DEF Editing
<1>4. NoDialog.kind = "none"
  BY DEF NoDialog
<1>5. dialog.kind = "edit" => IsForm(dialog.form)
  BY DEF BriefInv
<1>6. CASE dialog' \in {dialog, NoDialog}
  BY <1>4, <1>5, <1>6
<1>7. ASSUME NEW form \in {BLANK} \union {formFromSearch(search) : search \in Data(Q("searches"))}, dialog' = Editing(form)
      PROVE  IsForm(dialog'.form)
  <2>1. IsForm(form)
    BY BlankIsForm, FormIs DEF BriefInv, IsBrief
  <2> QED
    BY <1>3, <1>7, <2>1
<1>8. ASSUME NEW place, dialog.kind = "edit", dialog' = Typed(place) PROVE IsForm(dialog'.form)
  BY <1>5, <1>8, TypedIs
<1>9. ASSUME NEW search, NEW kind \in {"pause", "remove"}, dialog' = Opened(kind, search.id) PROVE FALSE
  BY <1>2, <1>9
<1>10. ASSUME NEW search, dialog' = Review(Opened("launch", search.id), cache) PROVE FALSE
  <2> DEFINE d == Opened("launch", search.id)
  <2>1. DOMAIN d = DOMAIN NoDialog /\ d.kind = "launch"
    BY <1>2
  <2> HIDE DEF d
  <2>2. Review(d, cache).kind = "launch"
    BY <2>1, ReviewIs
  <2> QED
    BY <1>10, <2>2 DEF d
<1>11. ASSUME dialog' = Review(dialog, cache') PROVE dialog'.kind = dialog.kind /\ dialog'.form = dialog.form
  BY <1>1, <1>11, ReviewIs
<1>12. \A id : Ticked(id).kind = dialog.kind /\ Ticked(id).form = dialog.form
  BY <1>1 DEF Ticked
<1>13. \A n : Told(n).kind = dialog.kind /\ Told(n).form = dialog.form
  BY <1>1 DEF Told
<1> QED
  BY <1>5, <1>6, <1>7, <1>8, <1>9, <1>10, <1>11, <1>12, <1>13 DEF DialogMoves

LEMMA NextBrief == Tables /\ Shapes /\ BriefInv /\ [Next]_vars => BriefInv'
<1> SUFFICES ASSUME Tables, Shapes, BriefInv, [Next]_vars PROVE BriefInv'
  OBVIOUS
<1>1. \A search \in searches' : IsBrief(search)
  BY SearchesStayBriefs
<1>2. \A search \in cache'[Q("searches")].data : IsBrief(search)
  <2>1. Q("searches") \in Queries
    BY QueriesAre
  <2>2. CacheMoves(cache')
    BY NextCache
  <2> DEFINE q == Q("searches")
  <2> HIDE DEF q
  <2>3. q \in Queries /\ Answer(q) = searches
    BY <2>1, AnswerSearches DEF q
  <2>4. cache'[q].data \in {{}, Data(q), searches}
    BY <2>2, <2>3 DEF CacheMoves, Nowhere
  <2> QED
    BY <2>4 DEF BriefInv, q
<1>3. dialog'.kind = "edit" => IsForm(dialog'.form)
  BY NextDialog, DialogStaysForm
<1>4. ASSUME NEW j \in DOMAIN requests', requests'[j].kind \in {"create", "update"} PROVE IsForm(requests'[j].what)
  <2>1. Carried(requests'[j]) \/ Asked(requests'[j])
    BY NextMoves DEF RequestsMove
  <2> QED
    BY <1>4, <2>1 DEF Carried, Asked, Same, BriefInv, Overlay
<1> QED
  BY <1>1, <1>2, <1>3, <1>4 DEF BriefInv, Data

LEMMA InitBrief == Init => BriefInv
<1> SUFFICES ASSUME Init PROVE BriefInv
  OBVIOUS
<1>1. searches = FirstSearches /\ cache = [q \in Queries |-> Nowhere] /\ requests = <<>>
  BY Zenon DEF Init
<1>2. Data(Q("searches")) = {}
  BY <1>1, QueriesAre DEF Data, Nowhere
<1>3. \A search \in FirstSearches : IsBrief(search)
  BY SearchAssumption DEF IsBrief, SearchIds
<1>4. dialog \in {NoDialog} \union {Editing(f) : f \in Forms}
  BY Zenon DEF Init, Editing
<1>5. \A f : Editing(f).form = f
  BY DEF Editing, NoDialog
<1>6. dialog.kind = "edit" => IsForm(dialog.form)
  BY <1>4, <1>5, SearchAssumption DEF NoDialog
<1> QED
  BY <1>1, <1>2, <1>3, <1>6 DEF BriefInv

\* Whatever brief is typed, but for a place of spaces alone, the email the editor
\* shows is the email the server drafts of the row the brief is saved as; and every
\* such row opens as a form that saves as the same row, also of a brief that was
\* opened from an older row and typed over (SearchesPage draftSearchEmail, save,
\* formFromSearch; search-brief draftSearchEmail).
THEOREM PreviewIsAlwaysTheEmail == Spec => []PreviewIsTheEmail
<1>1. Init => Tables /\ Shapes /\ BriefInv
  BY InitTables, InitShapes, InitBrief
<1>2. Tables /\ Shapes /\ BriefInv /\ [Next]_vars => (Tables /\ Shapes /\ BriefInv)'
  BY NextTables, NextShapes, NextBrief
<1>3. BriefInv => PreviewIsTheEmail
  BY FormIsItsRow DEF BriefInv, PreviewIsTheEmail
<1> QED
  BY <1>1, <1>2, <1>3, PTL DEF Spec
-----------------------------------------------------------------------------
(* Sends and what was approved *)

Eligible(c, id) == {row.id : row \in {r \in c[<<"review", id>>].data : r.eligible}}
IsLaunch(d, c) == d.search \in SearchIds /\ d.checked \subseteq d.shown /\ Eligible(c, d.search) \subseteq d.shown

\* What is queued, and what is on its way to be queued, was approved; the launch
\* dialog has noted the agents its review shows to be eligible, and ticks no others.
ConsentInv ==
  /\ queue.send \subseteq consent
  /\ \A i \in DOMAIN requests :
       requests[i].kind = "approve" => {<<requests[i].on, a>> : a \in requests[i].what} \subseteq consent
  /\ dialog.kind = "launch" => IsLaunch(dialog, cache)

\* A step leaves the reviews kept as they are or throws them away, unless the
\* dialog is told.
ReviewsStay == \A id \in SearchIds : cache'[<<"review", id>>].data \in {{}, Data(<<"review", id>>)}

LEMMA NextReviews == ASSUME Shapes, [Next]_vars PROVE ReviewsStay \/ dialog' = Review(dialog, cache')
<1>1. ASSUME \A q \in Queries : cache'[q].data \in {{}, Data(q)} PROVE ReviewsStay
  <2> SUFFICES ASSUME NEW id \in SearchIds
               PROVE  cache'[<<"review", id>>].data \in {{}, Data(<<"review", id>>)}
    BY Zenon DEF ReviewsStay
  <2> DEFINE q == <<"review", id>>
  <2>1. q \in Queries
    BY QueriesAre
  <2> HIDE DEF q
  <2>2. cache'[q].data \in {{}, Data(q)}
    BY <1>1, <2>1
  <2> QED
    BY <2>2 DEF q
<1>2. CASE cache' = cache
  BY <1>1, <1>2 DEF Data
<1>3. ASSUME NEW queries, cache' = Stale(cache, queries) PROVE ReviewsStay
  BY <1>1, <1>3, StaleIs
<1>4. CASE Marks \/ UndoExpires \/ clearShownInterest
  BY <1>2, <1>3, <1>4, ScreenFrame
<1>5. ASSUME NEW to, Visit(to) PROVE ReviewsStay
  BY <1>1, <1>5, VisitCache DEF Nowhere
<1>6. CASE ClearLens
  BY <1>1, <1>6, ClearLensCache DEF Nowhere, Data
<1>7. CASE Navigate
  BY <1>5, <1>6, <1>7, NavigateIs
<1>8. CASE Desk
  BY <1>2, <1>8, DeskFrame
<1>9. ASSUME NEW q \in Queries, Fetch(q) PROVE ReviewsStay \/ dialog' = Review(dialog, cache')
  <2>1. CASE dialog' = Review(dialog, cache')
    BY <2>1
  <2>2. CASE cache'[q].data = Data(q) /\ \A x \in Queries \ {q} : cache'[x] = cache[x]
    BY <1>1, <2>2 DEF Data
  <2> QED
    BY <1>9, <2>1, <2>2, FetchCache
<1>10. ASSUME NEW i \in DOMAIN requests, NEW outcome, Settle(i, outcome) PROVE ReviewsStay
  BY <1>3, <1>10, SettleCache
<1>11. CASE Reobserve \/ Pool
  BY <1>2, <1>11, ElsewhereIs DEF browser
<1>12. WalkOn \/ UNCHANGED vars => cache' = cache
  BY DEF WalkOn, vars, browser
<1> QED
  BY <1>2, <1>4, <1>7, <1>8, <1>9, <1>10, <1>11, <1>12 DEF Next

LEMMA ReviewedIsLaunch ==
  ASSUME NEW d, DOMAIN d = DOMAIN NoDialog, d.kind = "launch", d.search \in SearchIds, d.checked \subseteq d.shown, NEW c
  PROVE  IsLaunch(Review(d, c), c)
<1> DEFINE after == Review(d, c)
<1>1. /\ after.search = d.search /\ after.shown = d.shown \union Eligible(c, d.search)
      /\ after.checked \in {d.checked, Eligible(c, d.search)}
  BY ReviewIs DEF Eligible
<1> HIDE DEF after
<1>2. IsLaunch(after, c)
  BY <1>1 DEF IsLaunch
<1> QED
  BY <1>2 DEF after

LEMMA DialogStaysLaunch ==
  ASSUME Shapes, BriefInv, ConsentInv, [Next]_vars, dialog'.kind = "launch" PROVE IsLaunch(dialog', cache')
<1>1. DOMAIN dialog = DOMAIN NoDialog /\ DOMAIN NoDialog = {"kind", "search", "form", "checked", "shown", "seeded", "sent"}
  BY DEF Shapes, NoDialog
<1>2. dialog.kind = "launch" => IsLaunch(dialog, cache)
  BY DEF ConsentInv
<1>3. CASE dialog' = Review(dialog, cache')
  <2>1. dialog.kind = "launch"
    BY <1>1, <1>3, ReviewIs
  <2>2. dialog.search \in SearchIds /\ dialog.checked \subseteq dialog.shown
    BY <1>2, <2>1 DEF IsLaunch
  <2> QED
    BY <1>1, <1>3, <2>1, <2>2, ReviewedIsLaunch
<1>4. CASE ReviewsStay
  <2>1. \A id \in SearchIds : Eligible(cache', id) \subseteq Eligible(cache, id)
    <3> SUFFICES ASSUME NEW id \in SearchIds PROVE Eligible(cache', id) \subseteq Eligible(cache, id)
      OBVIOUS
    <3> DEFINE now == cache'[<<"review", id>>].data
               was == cache[<<"review", id>>].data
    <3>1. now = {} \/ now = was
      BY <1>4 DEF ReviewsStay, Data
    <3>2. /\ Eligible(cache', id) = {row.id : row \in {r \in now : r.eligible}}
          /\ Eligible(cache, id) = {row.id : row \in {r \in was : r.eligible}}
      BY DEF Eligible
    <3> HIDE DEF now, was
    <3> QED
      BY <3>1, <3>2
  <2>2. \A d : IsLaunch(d, cache) => IsLaunch(d, cache')
    BY <2>1 DEF IsLaunch
  <2>3. CASE dialog' \in {dialog, NoDialog}
    BY <1>2, <2>2, <2>3 DEF NoDialog
  <2>4. ASSUME NEW form, dialog' = Editing(form) PROVE FALSE
    BY <1>1, <2>4 DEF Editing
  <2>5. ASSUME NEW place, dialog.kind = "edit", dialog' = Typed(place) PROVE FALSE
    <3>1. Typed(place).kind = dialog.kind
      <4> DEFINE text == Text(place, FALSE, FALSE)
                 form == [[dialog.form EXCEPT !.location = text] EXCEPT !.name = text]
                 after == [dialog EXCEPT !.form = form]
      <4>1. Typed(place) = after
        BY Zenon, <1>1 DEF Typed
      <4> HIDE DEF form
      <4>2. after.kind = dialog.kind
        BY <1>1
      <4> QED
        BY <4>1, <4>2
    <3> QED
      BY <2>5, <3>1
  <2>6. ASSUME NEW search, NEW kind \in {"pause", "remove"}, dialog' = Opened(kind, search.id) PROVE FALSE
    BY <1>1, <2>6 DEF Opened
  <2>7. ASSUME NEW search \in Data(Q("searches")), dialog' = Review(Opened("launch", search.id), cache)
        PROVE  IsLaunch(dialog', cache')
    <3> DEFINE d == Opened("launch", search.id)
    <3>1. DOMAIN d = DOMAIN NoDialog /\ d.kind = "launch" /\ d.search = search.id /\ d.checked = {} /\ d.shown = {}
      BY DEF Opened, NoDialog
    <3>2. search.id \in SearchIds
      BY DEF BriefInv, IsBrief
    <3> HIDE DEF d
    <3>3. IsLaunch(Review(d, cache), cache)
      BY <3>1, <3>2, ReviewedIsLaunch
    <3> QED
      BY <2>2, <2>7, <3>3 DEF d
  <2>8. ASSUME NEW row \in Data(<<"review", dialog.search>>), row.eligible, dialog.kind = "launch",
               dialog' = Ticked(row.id)
        PROVE  IsLaunch(dialog', cache')
    <3>1. /\ dialog'.search = dialog.search /\ dialog'.shown = dialog.shown
          /\ dialog'.checked = toggleArr(dialog.checked, row.id)
      BY <1>1, <2>8 DEF Ticked
    <3>2. row.id \in Eligible(cache, dialog.search)
      BY <2>8 DEF Eligible, Data
    <3>3. toggleArr(dialog.checked, row.id) \subseteq dialog.shown
      BY <1>2, <2>8, <3>2 DEF IsLaunch, toggleArr
    <3>4. IsLaunch(dialog', cache)
      BY <1>2, <2>8, <3>1, <3>3 DEF IsLaunch
    <3> QED
      BY <2>2, <3>4
  <2>9. ASSUME NEW n, dialog' = Told(n) PROVE IsLaunch(dialog', cache')
    <3>1. /\ dialog'.search = dialog.search /\ dialog'.shown = dialog.shown
          /\ dialog'.checked = dialog.checked /\ dialog'.kind = dialog.kind
      BY <1>1, <2>9 DEF Told
    <3> QED
      BY <1>2, <2>2, <3>1 DEF IsLaunch
  <2> QED
    BY <1>3, <2>3, <2>4, <2>5, <2>6, <2>7, <2>8, <2>9, NextDialog DEF DialogMoves
<1> QED
  BY <1>3, <1>4, NextReviews

LEMMA ConsentGrows == ASSUME [Next]_vars PROVE consent \subseteq consent'
<1>1. CASE Marks \/ UndoExpires \/ clearShownInterest
  BY <1>1, ScreenFrame DEF history
<1>2. CASE Navigate
  BY <1>2, NavigateFrame
<1>3. CASE Desk
  BY <1>3, DeskFrame
<1>4. CASE \E q \in Queries : Fetch(q)
  BY <1>4, FetchFrame
<1>5. ASSUME NEW i, NEW outcome, Settle(i, outcome) PROVE consent \subseteq consent'
  BY <1>5, SettleFrame
<1>6. CASE Reobserve \/ Pool
  BY <1>6, ElsewhereIs
<1>7. WalkOn \/ UNCHANGED vars => consent' = consent
  BY DEF WalkOn, vars, history
<1> QED
  BY <1>1, <1>2, <1>3, <1>4, <1>5, <1>6, <1>7 DEF Next

LEMMA SettleSends ==
  ASSUME Shapes, ConsentInv, NEW i \in DOMAIN requests, NEW outcome, Settle(i, outcome)
  PROVE  queue'.send \subseteq consent
<1>1. queue.send \subseteq consent
  BY DEF ConsentInv
<1>2. CASE UNCHANGED server
  BY <1>1, <1>2 DEF server
<1>3. ASSUME NEW q, Effect(requests[i], q), q.kind # "approve" PROVE queue'.send \subseteq consent
  BY <1>1, <1>3, CarryFrame DEF Effect, Shapes
<1>4. ASSUME NEW q, Effect(requests[i], q), q.kind = "approve" PROVE queue'.send \subseteq consent
  <2>1. q.kind = requests[i].kind /\ q.on = requests[i].on /\ q.what \subseteq requests[i].what
    BY <1>4 DEF Effect
  <2>2. approveSends(q.on, q.what)
    BY <1>4 DEF Effect, Carry
  <2>3. queue'.send = queue.send \union {<<q.on, a>> : a \in q.what}
    BY <2>2 DEF approveSends, Shapes
  <2>4. {<<q.on, a>> : a \in q.what} \subseteq consent
    BY <1>4, <2>1 DEF ConsentInv
  <2> QED
    BY <1>1, <2>3, <2>4
<1> QED
  BY <1>2, <1>3, <1>4, SettleServer

LEMMA NextSends == ASSUME Tables, Shapes, ConsentInv, [Next]_vars PROVE queue'.send \subseteq consent
<1>1. CASE queue' = queue
  BY <1>1 DEF ConsentInv
<1>2. UNCHANGED server => queue' = queue
  BY DEF server
<1>3. CASE Marks \/ UndoExpires \/ clearShownInterest
  BY <1>1, <1>2, <1>3, ScreenFrame
<1>4. CASE Navigate
  BY <1>1, <1>2, <1>4, NavigateFrame
<1>5. CASE Desk
  BY <1>1, <1>2, <1>5, DeskFrame
<1>6. CASE \E q \in Queries : Fetch(q)
  BY <1>1, <1>2, <1>6, FetchFrame
<1>7. CASE \E i \in DOMAIN requests, outcome \in {"done", "lost", "failed"} : Settle(i, outcome)
  BY <1>7, SettleSends
<1>8. CASE Reobserve \/ Pool
  BY <1>1, <1>8, ReobserveIs, PoolIs
<1>9. WalkOn \/ UNCHANGED vars => UNCHANGED server
  BY DEF WalkOn, vars
<1> QED
  BY <1>1, <1>2, <1>3, <1>4, <1>5, <1>6, <1>7, <1>8, <1>9 DEF Next

LEMMA NextConsent == Tables /\ Shapes /\ BriefInv /\ ConsentInv /\ [Next]_vars => ConsentInv'
<1> SUFFICES ASSUME Tables, Shapes, BriefInv, ConsentInv, [Next]_vars PROVE ConsentInv'
  OBVIOUS
<1>1. queue'.send \subseteq consent'
  BY NextSends, ConsentGrows
<1>2. ASSUME NEW j \in DOMAIN requests', requests'[j].kind = "approve"
      PROVE  {<<requests'[j].on, a>> : a \in requests'[j].what} \subseteq consent'
  <2>1. Carried(requests'[j]) \/ Asked(requests'[j])
    BY NextMoves DEF RequestsMove
  <2>2. CASE Carried(requests'[j])
    BY <1>2, <2>2, ConsentGrows DEF Carried, Same, ConsentInv
  <2>3. CASE Asked(requests'[j])
    <3>1. /\ dialog.kind = "launch" /\ requests'[j].on = dialog.search /\ requests'[j].what = dialog.checked
          /\ {<<dialog.search, a>> : a \in dialog.shown \intersect dialog.checked} \subseteq consent'
      BY <1>2, <2>3 DEF Asked, Overlay
    <3>2. dialog.shown \intersect dialog.checked = dialog.checked
      BY <3>1 DEF ConsentInv, IsLaunch
    <3> QED
      BY <3>1, <3>2
  <2> QED
    BY <2>1, <2>2, <2>3
<1>3. dialog'.kind = "launch" => IsLaunch(dialog', cache')
  BY DialogStaysLaunch
<1> QED
  BY <1>1, <1>2, <1>3 DEF ConsentInv

LEMMA InitConsent == Init => ConsentInv
<1> SUFFICES ASSUME Init PROVE ConsentInv
  OBVIOUS
<1>1. queue = [discover |-> {}, send |-> {}, scrape |-> FALSE] /\ requests = <<>>
  BY Zenon DEF Init
<1>2. dialog \in {NoDialog} \union {Editing(f) : f \in Forms}
  BY Zenon DEF Init, Editing
<1>3. dialog.kind # "launch"
  <2>1. NoDialog.kind = "none" /\ \A f : Editing(f).kind = "edit"
    BY DEF Editing, NoDialog
  <2> QED
    BY <1>2, <2>1
<1> QED
  BY <1>1, <1>3 DEF ConsentInv

\* No email is queued for an agent but by the operator's approval in a launch
\* dialog that had shown the agent to be eligible; whichever reviews arrive, boxes
\* are ticked, dialogs close and answers are lost in between, and however little of
\* an approval the server carries out (LaunchModal, searches.router approveSends).
THEOREM SendsAreConsented == Spec => []QueuedOnConsent
<1>1. Init => Tables /\ Shapes /\ BriefInv /\ ConsentInv
  BY InitTables, InitShapes, InitBrief, InitConsent
<1>2. Tables /\ Shapes /\ BriefInv /\ ConsentInv /\ [Next]_vars => (Tables /\ Shapes /\ BriefInv /\ ConsentInv)'
  BY NextTables, NextShapes, NextBrief, NextConsent
<1>3. ConsentInv => QueuedOnConsent
  BY DEF ConsentInv, QueuedOnConsent
<1> QED
  BY <1>1, <1>2, <1>3, PTL DEF Spec
-----------------------------------------------------------------------------
(* What is kept is what the server has. *)

Told_ == {Q("searches"), Q("agents"), Q("agentStats"), Q("sources")}
Current(q) == cache[q].status = "success" /\ cache[q].fresh /\ q \notin outdated

\* An answer kept as fresh is the server's, unless others changed it or an answer was lost.
FreshInv == \A q \in Told_ : Current(q) => Data(q) = Answer(q)

LEMMA AnswersAre ==
  LET table == buildAgentRows(rows, agents, shell.agentFilter, MAX_PAGES)
  IN  /\ Answer(Q("searches")) = searches /\ Answer(Q("sources")) = sourceRows(rows)
      /\ Answer(Q("agents")) = table /\ Answer(Q("agentStats")) = {agentStats(table)}
  BY DEF Answer, Q

LEMMA AnswersStay ==
  ASSUME NEW q \in Told_, rows' = rows,
         q = Q("searches") => searches' = searches,
         q \in {Q("agents"), Q("agentStats")} => agents' = agents /\ shell'.agentFilter = shell.agentFilter
  PROVE  Answer(q)' = Answer(q)
  BY DEF Answer, Q, Told_

LEMMA FreshKept ==
  ASSUME Shapes, FreshInv,
         \A q \in Told_ :
           Current(q)' => Current(q) /\ cache'[q].data = cache[q].data /\ Answer(q)' = Answer(q)
  PROVE  FreshInv'
  BY DEF FreshInv, Data

LEMMA FreshStays ==
  ASSUME Shapes, FreshInv, rows' = rows, agents' = agents, searches' = searches, shell'.agentFilter = shell.agentFilter,
         outdated' = outdated,
         \A q \in Told_ : cache'[q].data = cache[q].data /\ cache'[q].status = cache[q].status
                          /\ (cache'[q].fresh => cache[q].fresh)
  PROVE  FreshInv'
<1>1. \A q \in Told_ : Current(q)' => Current(q)
  BY DEF Current
<1>2. \A q \in Told_ : Answer(q)' = Answer(q)
  BY AnswersStay
<1> QED
  BY <1>1, <1>2, FreshKept

LEMMA ToldAre == Told_ \subseteq Queries /\ Q("list") \notin Told_
  BY QueriesAre DEF Told_, Q

LEMMA InitFresh == Init => FreshInv
<1> SUFFICES ASSUME Init, NEW q \in Told_, Current(q) PROVE FALSE
  BY DEF FreshInv
<1>1. cache = [x \in Queries |-> Nowhere]
  BY Zenon DEF Init
<1>2. cache[q].status = "pending"
  BY <1>1, ToldAre DEF Nowhere
<1> QED
  BY <1>2 DEF Current

LEMMA VisitFresh == ASSUME Shapes, FreshInv, NEW to, Visit(to) PROVE FreshInv'
<1>1. shell' = to /\ rows' = rows /\ agents' = agents /\ searches' = searches /\ outdated' = outdated
  BY DEF Visit, server
<1>2. ASSUME NEW q \in Told_, Current(q)'
      PROVE  Current(q) /\ cache'[q].data = cache[q].data /\ Answer(q)' = Answer(q)
  <2>1. cache'[q] # Nowhere
    BY <1>2 DEF Current, Nowhere
  <2>2. /\ cache'[q].data = Data(q) /\ cache'[q].status = cache[q].status /\ (cache'[q].fresh => cache[q].fresh)
        /\ q[1] \in {"agents", "agentStats"} => to.agentFilter = shell.agentFilter
    BY <2>1, ToldAre, VisitCache
  <2>3. q \in {Q("agents"), Q("agentStats")} => q[1] \in {"agents", "agentStats"}
    BY DEF Q
  <2>4. Answer(q)' = Answer(q)
    BY <1>1, <2>2, <2>3, AnswersStay
  <2> QED
    BY <1>1, <1>2, <2>2, <2>4 DEF Current, Data
<1> QED
  BY <1>2, FreshKept

LEMMA ClearLensFresh == ASSUME Shapes, FreshInv, ClearLens PROVE FreshInv'
<1>1. PICK lens : shell' = IF lens = "search" THEN [shell EXCEPT !.searchFilter = NoLens]
                           ELSE [shell EXCEPT !.sourceFilter = NoSource]
  BY Zenon DEF ClearLens
<1>2. shell'.agentFilter = shell.agentFilter
  BY <1>1 DEF Shapes
<1>3. rows' = rows /\ agents' = agents /\ searches' = searches /\ outdated' = outdated
  BY DEF ClearLens, server, history
<1>4. \A q \in Told_ : cache'[q] = cache[q]
  BY ToldAre, ClearLensCache
<1> QED
  BY <1>2, <1>3, <1>4, FreshStays

LEMMA FetchFresh == ASSUME Shapes, FreshInv, NEW q \in Queries, Fetch(q) PROVE FreshInv'
<1>1. UNCHANGED <<rows, agents, searches, shell>>
  BY FetchFrame DEF server
<1>2. \A x \in Told_ : Answer(x)' = Answer(x)
  BY <1>1, AnswersStay
<1>3. ASSUME NEW x \in Told_, Current(x)' PROVE cache'[x].data = Answer(x)
  <2>1. CASE x # q
    <3>1. cache'[x] = cache[x] /\ (x \in outdated => x \in outdated')
      BY <2>1, ToldAre, FetchCache
    <3> QED
      BY <1>3, <3>1 DEF FreshInv, Current, Data
  <2>2. CASE x = q
    <3> DEFINE read == [data |-> Answer(q), status |-> "success", fresh |-> TRUE]
    <3>1. cache'[q] = read \/ cache'[q].status = "error"
      BY Zenon, FetchCache
    <3>2. read.data = Answer(q)
      OBVIOUS
    <3> HIDE DEF read
    <3> QED
      BY <1>3, <2>2, <3>1, <3>2 DEF Current
  <2> QED
    BY <2>1, <2>2
<1> QED
  BY <1>2, <1>3 DEF FreshInv, Data

LEMMA TouchesAre ==
  /\ \A kind \in {"create", "update", "setStatus", "remove"} : Q("searches") \in Touches(kind)
  /\ \A kind \in {"remove", "erase"} : {Q("agents"), Q("agentStats")} \subseteq Touches(kind)
  BY DEF Touches

LEMMA SettleFresh ==
  ASSUME Shapes, FreshInv, NEW i \in DOMAIN requests, NEW outcome, Settle(i, outcome) PROVE FreshInv'
<1> DEFINE r == requests[i]
<1>1. outdated' = (IF outcome = "done" THEN outdated ELSE Queries) /\ UNCHANGED shell
  BY Zenon, SettleFrame DEF Settle
<1>2. CASE outcome # "done"
  BY <1>1, <1>2, ToldAre DEF FreshInv, Current
<1>3. CASE outcome = "done"
  <2>1. PICK queries : /\ cache' = Stale(cache, queries)
                       /\ Found(r) /\ r.kind \notin Overlay => queries = Touches(r.kind)
    BY <1>3, SettleCache
  <2>2. /\ rows' = rows
        /\ searches' # searches => Q("searches") \in queries
        /\ agents' # agents => {Q("agents"), Q("agentStats")} \subseteq queries
    <3> HIDE DEF r
    <3>1. ASSUME NEW q, Effect(r, q)
          PROVE  /\ rows' = rows
                 /\ searches' # searches => Q("searches") \in queries
                 /\ agents' # agents => {Q("agents"), Q("agentStats")} \subseteq queries
      <4>1. /\ q.kind = r.kind /\ rows' = rows
            /\ agents' # agents => r.kind \in {"remove", "erase"}
            /\ searches' # searches => r.kind \in {"create", "update", "setStatus", "remove"}
            /\ r.kind # "approve" => Found(r)
        BY <3>1, CarryFrame DEF Effect, Shapes
      <4> QED
        BY <2>1, <4>1, TouchesAre DEF Overlay
    <3>2. UNCHANGED server =>
            rows' = rows /\ searches' = searches /\ agents' = agents
      BY DEF server
    <3> QED
      BY <3>1, <3>2, SettleServer DEF r
  <2>3. ASSUME NEW q \in Told_, Current(q)'
        PROVE  Current(q) /\ cache'[q].data = cache[q].data /\ Answer(q)' = Answer(q)
    <3>1. cache'[q].data = cache[q].data /\ cache'[q].status = cache[q].status
          /\ (cache'[q].fresh <=> cache[q].fresh /\ q \notin queries)
      BY <2>1, ToldAre, StaleIs DEF Data
    <3>2. Current(q) /\ q \notin queries
      BY <1>1, <1>3, <2>3, <3>1 DEF Current
    <3>3. Answer(q)' = Answer(q)
      BY <1>1, <2>2, <3>2, AnswersStay
    <3> QED
      BY <3>1, <3>2, <3>3
  <2> QED
    BY <2>3, FreshKept
<1> QED
  BY <1>2, <1>3

LEMMA NextFresh == Tables /\ Shapes /\ FreshInv /\ [Next]_vars => FreshInv'
<1> SUFFICES ASSUME Tables, Shapes, FreshInv, [Next]_vars PROVE FreshInv'
  OBVIOUS
<1>1. ASSUME UNCHANGED <<server, shell, outdated>>, UNCHANGED cache \/ cache' = Stale(cache, {Q("saved")})
      PROVE  FreshInv'
  <2>1. \A q \in Told_ : cache'[q].data = cache[q].data /\ cache'[q].status = cache[q].status
                          /\ (cache'[q].fresh => cache[q].fresh)
    BY <1>1, ToldAre, StaleIs DEF Data
  <2> QED
    BY <1>1, <2>1, FreshStays DEF server
<1>2. CASE Marks \/ UndoExpires \/ clearShownInterest
  BY <1>1, <1>2, ScreenFrame DEF history
<1>3. CASE Navigate
  BY <1>3, NavigateIs, VisitFresh, ClearLensFresh
<1>4. CASE Desk
  BY <1>1, <1>4, DeskFrame
<1>5. CASE \E q \in Queries : Fetch(q)
  BY <1>5, FetchFresh
<1>6. ASSUME NEW i \in DOMAIN requests, NEW outcome, Settle(i, outcome) PROVE FreshInv'
  BY <1>6, SettleFresh
<1>7. CASE Reobserve \/ Pool
  BY <1>7, ElsewhereIs, ToldAre DEF FreshInv, Current
<1>8. CASE WalkOn \/ UNCHANGED vars
  <2>1. UNCHANGED <<server, shell, outdated, cache>>
    BY <1>8 DEF WalkOn, vars, browser, history
  <2> QED
    BY <1>1, <2>1
<1> QED
  BY <1>2, <1>3, <1>4, <1>5, <1>6, <1>7, <1>8 DEF Next
-----------------------------------------------------------------------------
(* A patch's agents, collected page by page. *)

Nothing_ == [items |-> {}, cursor |-> NoCursor, more |-> TRUE]
PageAfter(table, outcodes, got) ==
  LET found == listAgents(table, outcodes, TRUE, got.cursor, MAX_PAGE_LIMIT)
  IN  [items |-> got.items \union Range(found.items), cursor |-> found.nextCursor,
       more |-> found.nextCursor # NoCursor]
Onward(table, outcodes, got) == IF got.more THEN PageAfter(table, outcodes, got) ELSE got
Collection(table, outcodes, m) ==
  CHOOSE k : k = [n \in 0..m |-> IF n = 0 THEN Nothing_ ELSE Onward(table, outcodes, k[n - 1])]

LEMMA CollectIs ==
  ASSUME NEW table, NEW outcodes, NEW m
  PROVE  collectAgents(table, outcodes, m) = Collection(table, outcodes, m)[m].items
  BY Zenon DEF collectAgents, Collection, Nothing_, Onward, PageAfter

LEMMA NatSetInduction ==
  ASSUME NEW S, 0 \in S, \A n \in Nat : n \in S => n + 1 \in S
  PROVE  Nat \subseteq S
<1> SUFFICES ASSUME NEW k \in Nat, k \notin S PROVE FALSE
  OBVIOUS
<1> DEFINE T == {A \in SUBSET Nat : \E n \in Nat : n \notin S /\ A = 1..n}
<1>1. \A n \in Nat : IsFiniteSet(1..n)
  BY FS_Interval
<1>2. T \subseteq FiniteSubsetsOf(Nat) /\ T # {}
  <2>1. 1..k \in T
    OBVIOUS
  <2> QED
    BY <1>1, <2>1 DEF FiniteSubsetsOf
<1> HIDE DEF T
<1>3. PICK A \in T : \A B \in T : ~(<<B, A>> \in StrictSubsetOrdering(Nat))
  BY <1>2, FS_StrictSubsetOrderingWellFounded, WFMin
<1> USE DEF T
<1>4. PICK n \in Nat : n \notin S /\ A = 1..n
  OBVIOUS
<1>5. n # 0 /\ n - 1 \in Nat /\ n - 1 \notin S
  BY <1>4
<1>6. 1..(n - 1) \in T
  BY <1>5
<1>7. n \in 1..n /\ n \notin 1..(n - 1) /\ 1..(n - 1) \subseteq 1..n
  BY <1>5
<1>8. <<1..(n - 1), A>> \in StrictSubsetOrdering(Nat)
  BY <1>4, <1>5, <1>7 DEF StrictSubsetOrdering
<1> QED
  BY <1>3, <1>6, <1>8

\* The pages follow one another from the first.
LEMMA CollectionIs ==
  ASSUME NEW table, NEW outcodes, NEW m \in Nat
  PROVE  LET k == Collection(table, outcodes, m)
         IN  k[0] = Nothing_ /\ \A n \in 1..m : k[n] = Onward(table, outcodes, k[n - 1])
<1> DEFINE Step(got) == Onward(table, outcodes, got)
           first == Nothing_
           N == {n \in Nat : \E k : k = [i \in 0..n |-> IF i = 0 THEN first ELSE Step(k[i - 1])]}
<1> HIDE DEF Step, first
<1>1. 0 \in N
  <2> DEFINE k == [i \in 0..0 |-> first]
  <2>1. k = [i \in 0..0 |-> IF i = 0 THEN first ELSE Step(k[i - 1])]
    OBVIOUS
  <2> HIDE DEF k
  <2> QED
    BY <2>1
<1>2. ASSUME NEW n \in Nat, n \in N PROVE n + 1 \in N
  <2>1. PICK k : k = [i \in 0..n |-> IF i = 0 THEN first ELSE Step(k[i - 1])]
    BY <1>2
  <2> DEFINE h == [i \in 0..(n + 1) |-> IF i <= n THEN k[i] ELSE Step(k[n])]
  <2>2. h = [i \in 0..(n + 1) |-> IF i = 0 THEN first ELSE Step(h[i - 1])]
    <3>1. \A i \in 0..(n + 1) : h[i] = IF i = 0 THEN first ELSE Step(h[i - 1])
      <4> SUFFICES ASSUME NEW i \in 0..(n + 1) PROVE h[i] = IF i = 0 THEN first ELSE Step(h[i - 1])
        OBVIOUS
      <4>1. \A j \in 0..n : h[j] = k[j]
        OBVIOUS
      <4>2. CASE i \in 0..n
        <5>1. i # 0 => i - 1 \in 0..n
          BY <4>2
        <5>2. k[i] = IF i = 0 THEN first ELSE Step(k[i - 1])
          BY <2>1, <4>2
        <5> QED
          BY <4>1, <4>2, <5>1, <5>2
      <4>3. CASE i = n + 1
        <5>1. h[n + 1] = Step(k[n]) /\ h[n] = k[n] /\ (n + 1) - 1 = n /\ n + 1 # 0
          OBVIOUS
        <5> HIDE DEF h
        <5> QED
          BY <4>3, <5>1
      <4> QED
        BY <4>2, <4>3
    <3>2. DOMAIN h = 0..(n + 1) /\ h = [i \in DOMAIN h |-> h[i]]
      OBVIOUS
    <3> HIDE DEF h
    <3> QED
      BY <3>1, <3>2
  <2> HIDE DEF h
  <2> QED
    BY <2>2
<1>3. m \in N
  <2> HIDE DEF N
  <2> QED
    BY <1>1, <1>2, NatSetInduction
<1> DEFINE c == Collection(table, outcodes, m)
<1>4. c = [n \in 0..m |-> IF n = 0 THEN first ELSE Step(c[n - 1])]
  <2>1. c = CHOOSE k : k = [n \in 0..m |-> IF n = 0 THEN first ELSE Step(k[n - 1])]
    BY Zenon DEF Collection, first, Step
  <2> HIDE DEF c
  <2> QED
    BY <1>3, <2>1
<1> HIDE DEF c
<1>5. c[0] = first /\ \A n \in 1..m : c[n] = Step(c[n - 1])
  BY <1>4
<1> QED
  BY <1>5 DEF c, first, Step

LEMMA ClampIs == clampLimit(MAX_PAGE_LIMIT) = MAX_PAGE_LIMIT /\ MAX_PAGE_LIMIT \in Nat \ {0}
<1>1. MAX_PAGE_LIMIT \in Nat \ {0}
  BY PageAssumption
<1>2. Max({MAX_PAGE_LIMIT, 1}) = MAX_PAGE_LIMIT
  BY <1>1 DEF Max
<1>3. Min({MAX_PAGE_LIMIT, MAX_PAGE_LIMIT}) = MAX_PAGE_LIMIT
  BY <1>1 DEF Min
<1> QED
  BY <1>1, <1>2, <1>3 DEF clampLimit

\* The agents who work a patch; of every place, when it has no outcodes.
Patch(table, outcodes) == {a \in table : outcodes # {} => a.covers \intersect outcodes # {}}
Asking(outcodes) == [filter |-> [outcodes |-> outcodes]]

\* After n pages: those whom the cursor has passed, n pages full; or all of them.
Collected(table, outcodes, got, n) ==
  /\ got.cursor = NoCursor \/ IsCursor("agents", Asking(outcodes), got.cursor)
  /\ got.items \subseteq Patch(table, outcodes)
  /\ ~got.more => got.items = Patch(table, outcodes)
  /\ got.more => /\ Cardinality(got.items) >= n * MAX_PAGE_LIMIT
                 /\ \A a \in Patch(table, outcodes) :
                      a \in got.items <=> Passed("agents", Asking(outcodes), got.cursor, a)

LEMMA RangeSize ==
  ASSUME NEW f, NEW n \in Nat, DOMAIN f = 1..n, \A i, j \in 1..n : f[i] = f[j] => i = j
  PROVE  IsFiniteSet(Range(f)) /\ Cardinality(Range(f)) = n
<1> DEFINE g == [i \in 1..n |-> f[i]]
<1>1. g \in Bijection(1..n, Range(f))
  <2>1. g \in [1..n -> Range(f)]
    BY DEF Range
  <2>2. \A i, j \in 1..n : g[i] = g[j] => i = j
    OBVIOUS
  <2>3. \A x \in Range(f) : \E i \in 1..n : g[i] = x
    BY DEF Range
  <2> QED
    BY <2>1, <2>2, <2>3 DEF Bijection, Injection, Surjection, IsInjective
<1>2. IsFiniteSet(1..n) /\ Cardinality(1..n) = n
  BY FS_Interval
<1>3. ExistsBijection(1..n, Range(f))
  BY <1>1 DEF ExistsBijection
<1> QED
  BY <1>2, <1>3, FS_Bijection

LEMMA DisjointSize ==
  ASSUME NEW A, NEW B, IsFiniteSet(A), IsFiniteSet(B), A \cap B = {}
  PROVE  IsFiniteSet(A \cup B) /\ Cardinality(A \cup B) = Cardinality(A) + Cardinality(B)
<1>1. /\ IsFiniteSet(A \cup B)
      /\ Cardinality(A \cup B) = Cardinality(A) + Cardinality(B) - Cardinality(A \cap B)
  BY FS_Union
<1>2. Cardinality(A) \in Nat /\ Cardinality(B) \in Nat /\ Cardinality(A \cap B) = 0
  BY FS_CardinalityType, FS_EmptySet
<1> QED
  BY <1>1, <1>2

LEMMA PageAfterIs ==
  ASSUME NEW table, NEW outcodes, NEW got
  PROVE  LET found == listAgents(table, outcodes, TRUE, got.cursor, MAX_PAGE_LIMIT)
             after == PageAfter(table, outcodes, got)
         IN  /\ after.items = got.items \union Range(found.items) /\ after.cursor = found.nextCursor
             /\ after.more <=> found.nextCursor # NoCursor
  BY Zenon DEF PageAfter

LEMMA PageCollects ==
  ASSUME NEW table, IsFiniteSet(table), Keyed(table), \A a \in table : IsAgent(a), NEW outcodes, NEW got,
         NEW n \in Nat, Collected(table, outcodes, got, n), got.more
  PROVE  Collected(table, outcodes, PageAfter(table, outcodes, got), n + 1)
<1> DEFINE asked == Asking(outcodes)
           found == listAgents(table, outcodes, TRUE, got.cursor, MAX_PAGE_LIMIT)
           page == Range(found.items)
           after == PageAfter(table, outcodes, got)
           patch == Patch(table, outcodes)
           due == Due("agents", asked, table, got.cursor)
           M == MAX_PAGE_LIMIT
<1>1. /\ after.items = got.items \union page /\ after.cursor = found.nextCursor
      /\ after.more <=> found.nextCursor # NoCursor
  BY Zenon, PageAfterIs
<1>2. asked.filter.outcodes = outcodes
  BY DEF Asking
<1> HIDE DEF asked, after, patch
<1>3. got.cursor = NoCursor \/ IsCursor("agents", asked, got.cursor)
  BY DEF Collected, asked
<1>4. got.cursor = NoCursor \/ (got.cursor \in Place /\ got.cursor.isNull)
  BY <1>3 DEF IsCursor
<1>5. M \in Nat /\ M \in Int /\ clampLimit(M) = M
  BY ClampIs
<1>6. IsPage(found.items, found.nextCursor, due, DueOrder("agents", asked, due), M, Spots("agents", asked, due))
  BY <1>2, <1>4, <1>5, AgentsPage
<1>7. \A a \in table : IsRow("agents", a)
  BY DEF IsRow
<1>8. Covers("agents", asked, table, got.cursor, M, found)
  BY <1>3, <1>5, <1>6, <1>7, PageCovers
<1> HIDE DEF found, due, M
<1>9. \A a \in table : Wanted("agents", asked, a) <=> a \in patch
  BY <1>2 DEF Wanted, Patch, patch
<1>10. patch \subseteq table /\ due \subseteq patch /\ \A a \in patch : a \in due <=> ~Passed("agents", asked, got.cursor, a)
  BY <1>9 DEF Patch, patch, due, Due, Passed
<1>11. \A a \in patch : a \in got.items <=> Passed("agents", asked, got.cursor, a)
  BY DEF Collected, patch, asked
<1>12. PICK k \in Nat : /\ DOMAIN found.items = 1..k /\ (found.nextCursor # NoCursor => k = M)
                        /\ \A i \in 1..k : found.items[i] \in due
                        /\ \A i, j \in 1..k : found.items[i] = found.items[j] => i = j
  BY <1>8 DEF Covers, due
<1>13. page \subseteq due /\ \A a : a \in page <=> \E i \in DOMAIN found.items : found.items[i] = a
  BY <1>12 DEF Range
<1>14. \A a \in patch : a \in after.items <=> found.nextCursor = NoCursor \/ Passed("agents", asked, found.nextCursor, a)
  <2>1. \A a \in patch :
          (Passed("agents", asked, got.cursor, a) \/ (\E i \in DOMAIN found.items : found.items[i] = a)
             <=> found.nextCursor = NoCursor \/ Passed("agents", asked, found.nextCursor, a))
    BY <1>8, <1>9, <1>10 DEF Covers
  <2> QED
    BY <1>1, <1>11, <1>13, <2>1
<1>15. IsFiniteSet(page) /\ Cardinality(page) = k
  BY <1>12, RangeSize
<1> HIDE DEF page
<1>16. got.items \subseteq patch /\ IsFiniteSet(got.items) /\ got.items \cap page = {}
  <2>1. got.items \subseteq patch
    BY DEF Collected, patch
  <2>2. IsFiniteSet(got.items)
    BY <1>10, <2>1, FS_Subset
  <2> QED
    BY <1>10, <1>11, <1>13, <2>1, <2>2
<1>17. Cardinality(after.items) = Cardinality(got.items) + k
  BY <1>1, <1>15, <1>16, DisjointSize
<1>18. found.nextCursor # NoCursor => Cardinality(after.items) >= (n + 1) * M
  <2>1. Cardinality(got.items) >= n * M /\ Cardinality(got.items) \in Nat
    BY <1>16, FS_CardinalityType DEF Collected, M
  <2>2. (n + 1) * M = n * M + M /\ n * M \in Nat
    BY <1>5
  <2> QED
    BY <1>5, <1>12, <1>17, <2>1, <2>2
<1>19. found.nextCursor = NoCursor \/ IsCursor("agents", asked, found.nextCursor)
  BY <1>8 DEF Covers
<1>20. after.items \subseteq patch /\ (~after.more => after.items = patch)
  BY <1>1, <1>10, <1>13, <1>14, <1>16
<1> QED
  BY <1>1, <1>14, <1>18, <1>19, <1>20 DEF Collected, after, patch, asked, M

\* Every agent of the patch is collected, while the pages hold all the agents there are.
LEMMA CollectsThePatch ==
  ASSUME NEW table, IsFiniteSet(table), Keyed(table), \A a \in table : IsAgent(a), NEW outcodes,
         NEW m \in Nat, Cardinality(table) <= m * MAX_PAGE_LIMIT
  PROVE  collectAgents(table, outcodes, m) = Patch(table, outcodes)
<1> DEFINE k == Collection(table, outcodes, m)
           patch == Patch(table, outcodes)
           N == {n \in Nat : n <= m => Collected(table, outcodes, k[n], n)}
<1>1. k[0] = Nothing_ /\ \A n \in 1..m : k[n] = Onward(table, outcodes, k[n - 1])
  BY CollectionIs
<1> HIDE DEF k
<1>2. 0 \in N
  <2>1. Nothing_.items = {} /\ Nothing_.cursor = NoCursor /\ Nothing_.more
    BY Zenon DEF Nothing_
  <2>2. Cardinality({}) = 0 /\ 0 * MAX_PAGE_LIMIT = 0
    BY FS_EmptySet, ClampIs
  <2>3. \A a : ~Passed("agents", Asking(outcodes), NoCursor, a)
    BY DEF Passed
  <2>4. Collected(table, outcodes, Nothing_, 0)
    BY <2>1, <2>2, <2>3 DEF Collected
  <2> QED
    BY <1>1, <2>4
<1>3. ASSUME NEW n \in Nat, n \in N PROVE n + 1 \in N
  <2> SUFFICES ASSUME n + 1 <= m PROVE Collected(table, outcodes, k[n + 1], n + 1)
    OBVIOUS
  <2>1. k[n + 1] = Onward(table, outcodes, k[n]) /\ Collected(table, outcodes, k[n], n)
    BY <1>1, <1>3
  <2>2. CASE k[n].more
    BY <2>1, <2>2, PageCollects DEF Onward
  <2>3. CASE ~k[n].more
    BY <2>1, <2>3 DEF Onward, Collected
  <2> QED
    BY <2>2, <2>3
<1>4. Collected(table, outcodes, k[m], m)
  <2>1. m \in N
    <3> HIDE DEF N
    <3> QED
      BY <1>2, <1>3, NatSetInduction
  <2> QED
    BY <2>1
<1>5. k[m].items = patch
  <2> DEFINE items == k[m].items
  <2>1. items \subseteq patch /\ patch \subseteq table /\ IsFiniteSet(patch)
    BY <1>4, FS_Subset DEF Collected, Patch
  <2>2. CASE ~k[m].more
    BY <1>4, <2>2 DEF Collected
  <2>3. CASE k[m].more
    <3>1. Cardinality(items) >= m * MAX_PAGE_LIMIT
      BY <1>4, <2>3 DEF Collected
    <3>2. /\ IsFiniteSet(items)
          /\ Cardinality(items) \in Nat /\ Cardinality(patch) \in Nat /\ Cardinality(table) \in Nat
          /\ m * MAX_PAGE_LIMIT \in Nat
      BY <2>1, FS_Subset, FS_CardinalityType, ClampIs
    <3>3. Cardinality(patch) <= Cardinality(table) /\ Cardinality(items) <= Cardinality(patch)
          /\ (Cardinality(items) = Cardinality(patch) => items = patch)
      BY <2>1, <3>2, FS_Subset
    <3> QED
      BY <3>1, <3>2, <3>3
  <2> QED
    BY <2>2, <2>3
<1> QED
  BY <1>5, CollectIs DEF k, patch
-----------------------------------------------------------------------------
(* A card's counters and a review's. *)

Draft(agent) ==
  [id |-> agent.id, eligible |-> assertCanSend(agents, sending, agent) = "ok",
   reason |-> assertCanSend(agents, sending, agent)]
Drafts(table) == {Draft(agent) : agent \in table}

Line_(agent) ==
  [id |-> agent.id, status |-> deriveAgentStatus(agent.optedOut, agent.thread),
   homesCount |-> countByAgentEmail(rows, agent.email), contacted |-> agent.contacted # "never"]
Lines(table) == {Line_(agent) : agent \in table}

LEMMA ReviewDrafts ==
  ASSUME NEW outcodes, NEW m
  PROVE  reviewDrafts(agents, sending, outcodes, m) = Drafts(collectAgents(agents, outcodes, m))
  BY Zenon DEF reviewDrafts, Drafts, Draft

LEMMA AgentLines ==
  ASSUME NEW outcodes, NEW m
  PROVE  buildAgentRows(rows, agents, outcodes, m) = Lines(collectAgents(agents, outcodes, m))
  BY Zenon DEF buildAgentRows, Lines, Line_

LEMMA DraftIs == ASSUME NEW a PROVE Draft(a).id = a.id
  BY DEF Draft

LEMMA LineIs ==
  ASSUME NEW a
  PROVE  /\ Line_(a).id = a.id
         /\ Line_(a).contacted <=> a.contacted # "never"
         /\ a.optedOut => Line_(a).status = "opted_out"
         /\ ~a.optedOut => Line_(a).status # "opted_out"
<1>1. /\ Line_(a).id = a.id /\ (Line_(a).contacted <=> a.contacted # "never")
      /\ Line_(a).status = deriveAgentStatus(a.optedOut, a.thread)
  BY Zenon DEF Line_
<1>2. a.optedOut => deriveAgentStatus(a.optedOut, a.thread) = "opted_out"
  BY DEF deriveAgentStatus
<1>3. ~a.optedOut => deriveAgentStatus(a.optedOut, a.thread) # "opted_out"
  BY DEF deriveAgentStatus
<1> QED
  BY <1>1, <1>2, <1>3

\* What is made of a table row by row, ids kept, has as many members as the table.
LEMMA Retold ==
  ASSUME NEW table, IsFiniteSet(table), Keyed(table), NEW f, f = [a \in table |-> f[a]],
         \A a \in table : f[a].id = a.id
  PROVE  Cardinality({f[a] : a \in table}) = Cardinality(table)
<1> DEFINE image == {f[a] : a \in table}
<1>1. f \in Bijection(table, image)
  <2>1. f \in [table -> image] /\ \A d \in image : \E a \in table : f[a] = d
    OBVIOUS
  <2>2. \A a, b \in table : f[a] = f[b] => a = b
    BY DEF Keyed
  <2> HIDE DEF image
  <2> QED
    BY <2>1, <2>2 DEF Bijection, Injection, Surjection, IsInjective
<1>2. ExistsBijection(table, image)
  BY <1>1 DEF ExistsBijection
<1> QED
  BY <1>2, FS_Bijection

LEMMA DraftsSize ==
  ASSUME NEW table, IsFiniteSet(table), Keyed(table)
  PROVE  Cardinality(Drafts(table)) = Cardinality(table)
<1> DEFINE f == [a \in table |-> Draft(a)]
<1>1. f = [a \in table |-> f[a]] /\ Drafts(table) = {f[a] : a \in table} /\ \A a \in table : f[a].id = a.id
  BY DraftIs DEF Drafts
<1> HIDE DEF f
<1> QED
  BY <1>1, Retold

LEMMA LinesSize ==
  ASSUME NEW table, IsFiniteSet(table), Keyed(table)
  PROVE  Cardinality(Lines(table)) = Cardinality(table)
<1> DEFINE f == [a \in table |-> Line_(a)]
<1>1. f = [a \in table |-> f[a]] /\ Lines(table) = {f[a] : a \in table} /\ \A a \in table : f[a].id = a.id
  BY LineIs DEF Lines
<1> HIDE DEF f
<1> QED
  BY <1>1, Retold

LEMMA CountersAgree ==
  ASSUME Tables, NEW s, s.outcodes # {}
  PROVE  LET stats  == searchStats(rows, agents, s)
             drafts == {d \in reviewDrafts(agents, sending, s.outcodes, MAX_PAGES) :
                          \A a \in agents : a.id = d.id => ~a.optedOut}
             table  == {row \in buildAgentRows(rows, agents, s.outcodes, MAX_PAGES) : row.status # "opted_out"}
         IN  /\ stats.agentsInPatch = Cardinality(drafts)
             /\ stats.agentsInPatch = Cardinality(table)
             /\ stats.agentsContacted = Cardinality({row \in table : row.contacted})
<1> DEFINE patch == {a \in agents : ~a.optedOut /\ a.covers \intersect s.outcodes # {}}
           stats == searchStats(rows, agents, s)
           drafts == {d \in reviewDrafts(agents, sending, s.outcodes, MAX_PAGES) :
                        \A a \in agents : a.id = d.id => ~a.optedOut}
           table == {row \in buildAgentRows(rows, agents, s.outcodes, MAX_PAGES) : row.status # "opted_out"}
           contacted == {a \in patch : a.contacted # "never"}
<1>1. stats.agentsInPatch = Cardinality(patch) /\ stats.agentsContacted = Cardinality(contacted)
  BY DEF searchStats
<1>2. IsFiniteSet(agents) /\ Cardinality(agents) <= MAX_PAGES * MAX_PAGE_LIMIT /\ MAX_PAGES \in Nat
      /\ Keyed(agents) /\ \A a \in agents : IsAgent(a)
  BY AgentsFinite, PageAssumption DEF Tables
<1>3. collectAgents(agents, s.outcodes, MAX_PAGES) = Patch(agents, s.outcodes)
  BY <1>2, CollectsThePatch
<1>4. drafts = Drafts(patch)
  <2>1. reviewDrafts(agents, sending, s.outcodes, MAX_PAGES) = Drafts(Patch(agents, s.outcodes))
    BY <1>3, ReviewDrafts
  <2>2. \A a, b \in agents : a.id = b.id => a = b
    BY <1>2 DEF Keyed
  <2> QED
    BY <2>1, <2>2, DraftIs DEF Drafts, Patch
<1>5. table = Lines(patch)
  <2>1. buildAgentRows(rows, agents, s.outcodes, MAX_PAGES) = Lines(Patch(agents, s.outcodes))
    BY <1>3, AgentLines
  <2> QED
    BY <2>1, LineIs DEF Lines, Patch
<1>6. {row \in table : row.contacted} = Lines(contacted)
  <2> HIDE DEF table
  <2> QED
    BY <1>5, LineIs DEF Lines
<1>7. IsFiniteSet(patch) /\ Keyed(patch) /\ IsFiniteSet(contacted) /\ Keyed(contacted)
  BY <1>2, FS_Subset DEF Keyed
<1> HIDE DEF patch, contacted, drafts, table, stats
<1>8. /\ Cardinality(Drafts(patch)) = Cardinality(patch)
      /\ Cardinality(Lines(patch)) = Cardinality(patch) /\ Cardinality(Lines(contacted)) = Cardinality(contacted)
  BY <1>7, DraftsSize, LinesSize
<1> QED
  BY <1>1, <1>4, <1>5, <1>6, <1>8 DEF drafts, table, stats

LEMMA TilesAgree ==
  ASSUME NEW table, NEW chip \in {"replied", "awaiting"}
  PROVE  agentStats(table)[chip] = Cardinality(AgentsTable(table, chip))
<1>1. /\ agentStats(table)["replied"] = Cardinality({row \in table : row.status = "replied"})
      /\ agentStats(table)["awaiting"] = Cardinality({row \in table : row.status \in {"awaiting", "queued"}})
  BY Zenon DEF agentStats
<1>2. /\ AgentsTable(table, "replied") = {row \in table : row.status = "replied"}
      /\ AgentsTable(table, "awaiting") = {row \in table : row.status \in {"awaiting", "queued"}}
  BY DEF AgentsTable
<1> QED
  BY <1>1, <1>2

LEMMA FreshTells == Tables /\ FreshInv => SettledTables
<1> SUFFICES ASSUME Tables, FreshInv PROVE SettledTables
  OBVIOUS
<1>1. \A q \in {Q("searches"), Q("agents"), Q("agentStats"), Q("sources")} :
        cache[q].status = "success" /\ cache[q].fresh /\ q \notin outdated => Data(q) = Answer(q)
  BY DEF FreshInv, Told_, Current
<1>2. (\A q \in {Q("agents"), Q("agentStats")} :
         cache[q].status = "success" /\ cache[q].fresh /\ q \notin outdated) =>
        \A chip \in {"replied", "awaiting"} : \A tiles \in Data(Q("agentStats")) :
          tiles[chip] = Cardinality(AgentsTable(Data(Q("agents")), chip))
  <2> SUFFICES ASSUME \A q \in {Q("agents"), Q("agentStats")} :
                        cache[q].status = "success" /\ cache[q].fresh /\ q \notin outdated,
                      NEW chip \in {"replied", "awaiting"}, NEW tiles \in Data(Q("agentStats"))
               PROVE  tiles[chip] = Cardinality(AgentsTable(Data(Q("agents")), chip))
    OBVIOUS
  <2>1. Data(Q("agentStats")) = Answer(Q("agentStats")) /\ Data(Q("agents")) = Answer(Q("agents"))
    BY <1>1
  <2> QED
    BY <2>1, AnswersAre, TilesAgree
<1>3. ASSUME NEW s \in {t \in searches : t.outcodes # {}}
      PROVE  LET stats  == searchStats(rows, agents, s)
                 drafts == {d \in reviewDrafts(agents, sending, s.outcodes, MAX_PAGES) :
                              \A a \in agents : a.id = d.id => ~a.optedOut}
                 table  == {row \in buildAgentRows(rows, agents, s.outcodes, MAX_PAGES) : row.status # "opted_out"}
             IN  /\ stats.agentsInPatch = Cardinality(drafts)
                 /\ stats.agentsInPatch = Cardinality(table)
                 /\ stats.agentsContacted = Cardinality({row \in table : row.contacted})
  BY CountersAgree
<1> QED
  BY Zenon, <1>1, <1>2, <1>3 DEF SettledTables

\* Whatever was clicked, answered or refetched in between: the searches, the agents,
\* their tiles and the sources that a screen keeps as fresh are the server's, unless
\* others changed something or an answer was lost; the tiles count the table's rows;
\* and the counters of a card, counted in the database, are those of the review of
\* its patch and of its Agents table, collected page after page (SearchesPage,
\* AgentsPage; searches.router stats, collectPatchAgents).
THEOREM TablesSettle == Spec => []SettledTables
<1>1. Init => Tables /\ Shapes /\ FreshInv
  BY InitTables, InitShapes, InitFresh
<1>2. Tables /\ Shapes /\ FreshInv /\ [Next]_vars => (Tables /\ Shapes /\ FreshInv)'
  BY NextTables, NextShapes, NextFresh
<1>3. Tables /\ FreshInv => SettledTables
  BY FreshTells
<1> QED
  BY <1>1, <1>2, <1>3, PTL DEF Spec
-----------------------------------------------------------------------------
(* The changes of the Listings screen on their way, in order. *)

Overlays == {"saved", "dismissed"}
Adds(n) == IF n = "saved" THEN "save" ELSE "dismiss"
Served(r, n, h) == r.kind \in Overlay /\ Serves(r.kind) = n /\ r.on = h

LEMMA AddsAre ==
  /\ \A n \in Overlays : Adds(n) \in Overlay /\ Serves(Adds(n)) = n
  /\ \A kind \in Overlay : Serves(kind) \in Overlays
  /\ \A n \in Overlays : "unsave" # Adds(n)
  BY DEF Overlays, Adds, Overlay, Serves

LEMMA MutedCalls ==
  ASSUME NEW reqs, Requests(reqs), NEW kinds, NEW i \in DOMAIN reqs
  PROVE  /\ Muted(reqs, kinds)[i].kind = reqs[i].kind /\ Muted(reqs, kinds)[i].on = reqs[i].on
         /\ Muted(reqs, kinds)[i].calls => reqs[i].calls
         /\ reqs[i].kind \notin kinds => Muted(reqs, kinds)[i] = reqs[i]
<1>1. Muted(reqs, kinds)[i] = IF reqs[i].kind \in kinds THEN [reqs[i] EXCEPT !.calls = FALSE] ELSE reqs[i]
  BY DEF Muted
<1>2. DOMAIN reqs[i] = {"kind", "on", "what", "calls"}
  BY DEF Requests, IsRequest
<1> QED
  BY <1>1, <1>2

LEMMA SentAt ==
  ASSUME NEW reqs, Requests(reqs), NEW request, IsRequest(request)
  PROVE  \E n \in Nat :
           /\ DOMAIN reqs = 1..n /\ DOMAIN Sent(reqs, request) = 1..(n + 1) /\ Sent(reqs, request)[n + 1] = request
           /\ \A i \in 1..n : Sent(reqs, request)[i] = Muted(reqs, {request.kind} \intersect Overlay)[i]
<1> DEFINE m == Muted(reqs, {request.kind} \intersect Overlay)
           S == {m[i] : i \in DOMAIN m} \union {request}
           t == Append(m, request)
<1>1. Requests(m) /\ DOMAIN m = DOMAIN reqs
  BY MutedIs
<1>2. PICK n \in Nat : DOMAIN m = 1..n /\ m = [i \in 1..n |-> m[i]]
  BY <1>1 DEF Requests, IsSeq
<1> HIDE DEF m
<1>3. request \in S /\ \A i \in 1..n : m[i] \in S
  BY <1>2
<1> HIDE DEF S
<1>4. m \in [1..n -> S]
  BY <1>2, <1>3
<1>5. m \in Seq(S) /\ Len(m) = n
  BY <1>4
<1>6. DOMAIN t = 1..(n + 1) /\ t[n + 1] = request /\ \A i \in 1..n : t[i] = m[i]
  BY <1>3, <1>5
<1> HIDE DEF t
<1>7. Sent(reqs, request) = t
  BY DEF Sent, t, m
<1> QED
  BY <1>1, <1>2, <1>6, <1>7 DEF m

LEMMA WithoutAt ==
  ASSUME NEW reqs, IsSeq(reqs), NEW i \in DOMAIN reqs
  PROVE  \E n \in Nat :
           /\ DOMAIN reqs = 1..n /\ i \in 1..n /\ DOMAIN Without(reqs, i) = 1..(n - 1)
           /\ \A k \in 1..(n - 1) : Without(reqs, i)[k] = reqs[IF k < i THEN k ELSE k + 1]
<1> DEFINE S == {reqs[j] : j \in DOMAIN reqs}
<1>1. PICK n \in Nat : DOMAIN reqs = 1..n /\ reqs = [j \in 1..n |-> reqs[j]]
  BY DEF IsSeq
<1>2. \A j \in 1..n : reqs[j] \in S
  BY <1>1
<1> HIDE DEF S
<1>3. reqs \in [1..n -> S]
  BY <1>1, <1>2
<1>4. Len(reqs) = n /\ i \in 1..n
  BY <1>1, <1>3
<1> DEFINE x == SubSeq(reqs, 1, i - 1)
           y == SubSeq(reqs, i + 1, n)
           p == i - 1
           q == n - i
<1>a. i \in Int /\ 1 <= i /\ i <= n
  BY <1>4
<1>5. /\ p \in Nat /\ q \in Nat /\ p + q = n - 1 /\ i + 1 \in Int
      /\ p - 1 + 1 = p /\ n - (i + 1) + 1 = q
      /\ (IF 1 <= p THEN p - 1 + 1 ELSE 0) = p
      /\ (IF i + 1 <= n THEN n - (i + 1) + 1 ELSE 0) = q
  <2>1. p \in Nat /\ q \in Nat /\ p + q = n - 1 /\ i + 1 \in Int
    BY <1>a
  <2>2. p - 1 + 1 = p /\ n - (i + 1) + 1 = q
    BY <1>a
  <2>3. (~(1 <= p) => p = 0) /\ (~(i + 1 <= n) => q = 0)
    BY <1>a
  <2> QED
    BY <2>1, <2>2, <2>3
<1>6. (\A j \in 1..p : reqs[j] \in S) /\ (\A j \in (i + 1)..n : reqs[j] \in S)
  BY <1>2, <1>4
<1>7. x \in Seq(S) /\ Len(x) = p /\ \A k \in 1..p : x[k] = reqs[1 + k - 1]
  BY <1>5, <1>6, SubSeqProperties
<1>8. y \in Seq(S) /\ Len(y) = q /\ \A k \in 1..q : y[k] = reqs[i + 1 + k - 1]
  BY <1>5, <1>6, SubSeqProperties
<1> HIDE DEF x, y
<1>9. IsSeq(x) /\ DOMAIN x = 1..p /\ IsSeq(y) /\ DOMAIN y = 1..q
  BY <1>7, <1>8, SeqIsSeq
<1> DEFINE t == Joined(x, y)
<1>10. /\ DOMAIN t = 1..(p + q) /\ (\A k \in 1..p : t[k] = x[k])
       /\ \A k \in 1..q : t[p + k] = y[k]
  BY <1>5, <1>9, JoinedAt
<1> HIDE DEF t
<1>11. \A k \in 1..(n - 1) : t[k] = reqs[IF k < i THEN k ELSE k + 1]
  <2> SUFFICES ASSUME NEW k \in 1..(n - 1) PROVE t[k] = reqs[IF k < i THEN k ELSE k + 1]
    OBVIOUS
  <2>1. CASE k < i
    <3>1. k \in 1..p /\ 1 + k - 1 = k
      BY <1>4, <2>1
    <3> QED
      BY <1>7, <1>10, <2>1, <3>1
  <2>2. CASE ~(k < i)
    <3> DEFINE l == k - p
    <3>1. l \in 1..q /\ p + l = k /\ i + 1 + l - 1 = k + 1
      BY <1>a, <2>2
    <3> HIDE DEF l
    <3>2. t[p + l] = y[l] /\ y[l] = reqs[i + 1 + l - 1]
      BY <1>8, <1>10, <3>1
    <3>3. t[k] = reqs[k + 1]
      BY <3>1, <3>2
    <3> QED
      BY <2>2, <3>3
  <2> QED
    BY <2>1, <2>2
<1>12. Without(reqs, i) = t
  BY <1>4 DEF Without, Joined, t, x, y
<1>13. DOMAIN t = 1..(n - 1)
  BY <1>5, <1>10
<1> QED
  BY <1>1, <1>4, <1>11, <1>12, <1>13

\* The last change of a home on its way decides what the screen marks; without one,
\* the server does.
Agrees(reqs, M, K, n, h) ==
  /\ (\A i \in DOMAIN reqs : ~Served(reqs[i], n, h)) => (h \in M <=> h \in K)
  /\ \A i \in DOMAIN reqs :
       Served(reqs[i], n, h) /\ (\A j \in DOMAIN reqs : Served(reqs[j], n, h) => j <= i)
         => (h \in M <=> reqs[i].kind = Adds(n))

\* A home of the server's set is in the answer kept, or a change that reads it again
\* is on its way; so is one behind every change that will not.
Keeps(reqs, K, c, n, h) ==
  /\ h \in K /\ c.fresh => \/ h \in Ids(c.data)
                           \/ \E i \in DOMAIN reqs : reqs[i].kind = Adds(n) /\ reqs[i].calls
  /\ \A i \in DOMAIN reqs :
       reqs[i].kind = Adds(n) /\ reqs[i].on = h /\ ~reqs[i].calls
         => \E j \in DOMAIN reqs : j > i /\ reqs[j].kind = Adds(n) /\ reqs[j].calls

LEMMA AgreesSame ==
  ASSUME NEW reqs, NEW next, DOMAIN next = DOMAIN reqs,
         \A i \in DOMAIN reqs : next[i].kind = reqs[i].kind /\ next[i].on = reqs[i].on,
         NEW M, NEW K, NEW n, NEW h, Agrees(reqs, M, K, n, h)
  PROVE  Agrees(next, M, K, n, h)
<1>1. \A i \in DOMAIN reqs : Served(next[i], n, h) <=> Served(reqs[i], n, h)
  BY DEF Served
<1> QED
  BY <1>1 DEF Agrees

LEMMA AgreesMuted ==
  ASSUME NEW reqs, Requests(reqs), NEW kinds, NEW M, NEW K, NEW n, NEW h, Agrees(reqs, M, K, n, h)
  PROVE  Agrees(Muted(reqs, kinds), M, K, n, h)
<1>1. DOMAIN Muted(reqs, kinds) = DOMAIN reqs
  BY MutedIs
<1>2. \A i \in DOMAIN reqs : Muted(reqs, kinds)[i].kind = reqs[i].kind /\ Muted(reqs, kinds)[i].on = reqs[i].on
  BY MutedCalls
<1> QED
  BY <1>1, <1>2, AgreesSame

LEMMA AgreesSent ==
  ASSUME NEW reqs, Requests(reqs), NEW request, IsRequest(request), NEW M, NEW M2, NEW K, NEW n, NEW h,
         Agrees(reqs, M, K, n, h),
         Served(request, n, h) => (h \in M2 <=> request.kind = Adds(n)),
         ~Served(request, n, h) => (h \in M2 <=> h \in M)
  PROVE  Agrees(Sent(reqs, request), M2, K, n, h)
<1> DEFINE m == Muted(reqs, {request.kind} \intersect Overlay)
           t == Sent(reqs, request)
<1>1. PICK N \in Nat : /\ DOMAIN reqs = 1..N /\ DOMAIN t = 1..(N + 1) /\ t[N + 1] = request
                       /\ \A i \in 1..N : t[i] = m[i]
  BY SentAt
<1>2. DOMAIN m = 1..N /\ Agrees(m, M, K, n, h)
  BY <1>1, MutedIs, AgreesMuted
<1> HIDE DEF m, t
<1>3. \A i \in 1..(N + 1) : i \in 1..N \/ i = N + 1
  BY <1>1
<1>4. (\A i \in 1..N : i \in 1..(N + 1)) /\ N + 1 \in 1..(N + 1) /\ \A i \in 1..N : ~(N + 1 <= i)
  BY <1>1
<1>5. \A i \in 1..N : Served(t[i], n, h) <=> Served(m[i], n, h)
  BY <1>1
<1>6. ASSUME Served(request, n, h) PROVE Agrees(t, M2, K, n, h)
  <2>1. ~\A i \in DOMAIN t : ~Served(t[i], n, h)
    BY <1>1, <1>4, <1>6
  <2>2. ASSUME NEW i \in DOMAIN t, \A j \in DOMAIN t : Served(t[j], n, h) => j <= i
        PROVE  h \in M2 <=> t[i].kind = Adds(n)
    <3>1. i = N + 1
      BY <1>1, <1>3, <1>4, <1>6, <2>2
    <3> QED
      BY <1>1, <1>6, <3>1
  <2> QED
    BY <2>1, <2>2 DEF Agrees
<1>7. ASSUME ~Served(request, n, h) PROVE Agrees(t, M2, K, n, h)
  <2>1. ASSUME \A i \in DOMAIN t : ~Served(t[i], n, h) PROVE h \in M2 <=> h \in K
    BY <1>1, <1>2, <1>4, <1>5, <1>7, <2>1 DEF Agrees
  <2>2. ASSUME NEW i \in DOMAIN t, Served(t[i], n, h), \A j \in DOMAIN t : Served(t[j], n, h) => j <= i
        PROVE  h \in M2 <=> t[i].kind = Adds(n)
    <3>1. i \in 1..N
      BY <1>1, <1>3, <1>7, <2>2
    <3>2. Served(m[i], n, h) /\ \A j \in DOMAIN m : Served(m[j], n, h) => j <= i
      BY <1>1, <1>2, <1>4, <1>5, <2>2, <3>1
    <3>3. h \in M <=> m[i].kind = Adds(n)
      BY <1>2, <3>1, <3>2 DEF Agrees
    <3> QED
      BY <1>1, <1>7, <3>1, <3>3
  <2> QED
    BY <2>1, <2>2 DEF Agrees
<1>8. Agrees(t, M2, K, n, h)
  BY <1>6, <1>7
<1> QED
  BY <1>8 DEF t

\* Each change left was at a place of its own before, and in the same order.
PlacedBefore(reqs, i, t, was) ==
  /\ \A k \in DOMAIN t : was[k] \in DOMAIN reqs /\ was[k] # i /\ t[k] = reqs[was[k]]
  /\ \A j \in DOMAIN reqs : j # i => \E k \in DOMAIN t : was[k] = j
  /\ \A k, l \in DOMAIN t : k <= l <=> was[k] <= was[l]

LEMMA WithoutWas ==
  ASSUME NEW reqs, IsSeq(reqs), NEW i \in DOMAIN reqs
  PROVE  \E was : PlacedBefore(reqs, i, Without(reqs, i), was)
<1> DEFINE t == Without(reqs, i)
           was == [k \in DOMAIN t |-> IF k < i THEN k ELSE k + 1]
<1>1. PICK N \in Nat : /\ DOMAIN reqs = 1..N /\ i \in 1..N /\ DOMAIN t = 1..(N - 1)
                       /\ \A k \in 1..(N - 1) : t[k] = reqs[IF k < i THEN k ELSE k + 1]
  BY WithoutAt
<1>2. i \in Int /\ 1 <= i /\ i <= N
  BY <1>1
<1> HIDE DEF t
<1>3. \A k \in 1..(N - 1) : was[k] = IF k < i THEN k ELSE k + 1
  BY <1>1
<1> HIDE DEF was
<1>4. \A k \in 1..(N - 1) : t[k] = reqs[was[k]]
  BY <1>1, <1>3
<1>5. \A k \in 1..(N - 1) : was[k] \in 1..N /\ was[k] # i
  BY <1>2, <1>3
<1>6. ASSUME NEW j \in 1..N, j # i PROVE \E k \in 1..(N - 1) : was[k] = j
  <2>1. CASE j < i
    <3>1. j \in 1..(N - 1)
      BY <1>2, <2>1
    <3> QED
      BY <1>3, <2>1, <3>1
  <2>2. CASE ~(j < i)
    <3>1. j - 1 \in 1..(N - 1) /\ ~(j - 1 < i) /\ j - 1 + 1 = j
      BY <1>2, <1>6, <2>2
    <3> QED
      BY <1>3, <3>1
  <2> QED
    BY <2>1, <2>2
<1>7. \A k, l \in 1..(N - 1) : k <= l <=> was[k] <= was[l]
  BY <1>2, <1>3
<1>8. PlacedBefore(reqs, i, t, was)
  BY <1>1, <1>4, <1>5, <1>6, <1>7 DEF PlacedBefore
<1> QED
  BY <1>8 DEF t

LEMMA AgreesWithout ==
  ASSUME NEW reqs, IsSeq(reqs), NEW i \in DOMAIN reqs, NEW M, NEW K, NEW K2, NEW n, NEW h,
         Agrees(reqs, M, K, n, h),
         Served(reqs[i], n, h) => /\ h \in K2 <=> reqs[i].kind = Adds(n)
                                  /\ \A j \in DOMAIN reqs : j < i => ~Served(reqs[j], n, h),
         ~Served(reqs[i], n, h) => (h \in K2 <=> h \in K)
  PROVE  Agrees(Without(reqs, i), M, K2, n, h)
<1> DEFINE t == Without(reqs, i)
<1>0. PICK was : PlacedBefore(reqs, i, t, was)
  BY WithoutWas
<1>1. /\ \A k \in DOMAIN t : was[k] \in DOMAIN reqs /\ was[k] # i /\ t[k] = reqs[was[k]]
      /\ \A j \in DOMAIN reqs : j # i => \E k \in DOMAIN t : was[k] = j
      /\ \A k, l \in DOMAIN t : k <= l <=> was[k] <= was[l]
  BY <1>0 DEF PlacedBefore
<1>2. DOMAIN reqs \subseteq Int
  BY DEF IsSeq
<1> HIDE DEF t
<1>6. ASSUME \A k \in DOMAIN t : ~Served(t[k], n, h) PROVE h \in M <=> h \in K2
  <2>1. \A j \in DOMAIN reqs : j # i => ~Served(reqs[j], n, h)
    BY <1>1, <1>6
  <2>2. CASE Served(reqs[i], n, h)
    <3>1. \A j \in DOMAIN reqs : Served(reqs[j], n, h) => j <= i
      BY <1>1, <1>2, <2>1
    <3> QED
      BY <2>2, <3>1 DEF Agrees
  <2>3. CASE ~Served(reqs[i], n, h)
    BY <1>1, <2>1, <2>3 DEF Agrees
  <2> QED
    BY <2>2, <2>3
<1>7. ASSUME NEW k \in DOMAIN t, Served(t[k], n, h), \A l \in DOMAIN t : Served(t[l], n, h) => l <= k
      PROVE  h \in M <=> t[k].kind = Adds(n)
  <2>1. was[k] \in DOMAIN reqs /\ t[k] = reqs[was[k]] /\ Served(reqs[was[k]], n, h) /\ was[k] # i
    BY <1>1, <1>7
  <2>2. \A j \in DOMAIN reqs : j # i /\ Served(reqs[j], n, h) => j <= was[k]
    <3> SUFFICES ASSUME NEW j \in DOMAIN reqs, j # i, Served(reqs[j], n, h) PROVE j <= was[k]
      OBVIOUS
    <3>1. PICK l \in DOMAIN t : was[l] = j
      BY <1>1
    <3>2. l <= k
      BY <1>1, <1>7, <3>1
    <3> QED
      BY <1>1, <3>1, <3>2
  <2>3. Served(reqs[i], n, h) => i <= was[k]
    <3>1. Served(reqs[i], n, h) => ~(was[k] < i)
      BY <2>1
    <3>2. i \in Int /\ was[k] \in Int
      BY <1>2, <2>1
    <3> QED
      BY <3>1, <3>2
  <2>4. \A j \in DOMAIN reqs : Served(reqs[j], n, h) => j <= was[k]
    BY <2>2, <2>3
  <2> QED
    BY <2>1, <2>4 DEF Agrees
<1>8. Agrees(t, M, K2, n, h)
  BY <1>6, <1>7 DEF Agrees
<1> QED
  BY <1>8 DEF t

LEMMA KeepsMuted ==
  ASSUME NEW reqs, Requests(reqs), NEW kinds, NEW K, NEW c, NEW n, NEW h, Keeps(reqs, K, c, n, h), Adds(n) \notin kinds
  PROVE  Keeps(Muted(reqs, kinds), K, c, n, h)
<1> DEFINE m == Muted(reqs, kinds)
<1>1. DOMAIN m = DOMAIN reqs
  BY MutedIs
<1>2. \A i \in DOMAIN reqs : m[i].kind = reqs[i].kind /\ (reqs[i].kind \notin kinds => m[i] = reqs[i])
  BY MutedCalls
<1>3. \A i \in DOMAIN reqs : (m[i].kind = Adds(n) <=> reqs[i].kind = Adds(n)) /\ (reqs[i].kind = Adds(n) => m[i] = reqs[i])
  BY <1>2
<1> HIDE DEF m
<1>4. Keeps(m, K, c, n, h)
  BY <1>1, <1>3 DEF Keeps
<1> QED
  BY <1>4 DEF m

LEMMA KeepsSent ==
  ASSUME NEW reqs, Requests(reqs), NEW request, IsRequest(request), request.calls, NEW K, NEW c, NEW n, NEW h,
         Keeps(reqs, K, c, n, h)
  PROVE  Keeps(Sent(reqs, request), K, c, n, h)
<1> DEFINE kinds == {request.kind} \intersect Overlay
           m == Muted(reqs, kinds)
           t == Sent(reqs, request)
<1>1. PICK N \in Nat : /\ DOMAIN reqs = 1..N /\ DOMAIN t = 1..(N + 1) /\ t[N + 1] = request
                       /\ \A i \in 1..N : t[i] = m[i]
  BY SentAt
<1>2. DOMAIN m = 1..N
  BY <1>1, MutedIs
<1>3. /\ \A i \in DOMAIN t : i \in 1..N \/ i = N + 1
      /\ (\A i \in 1..N : i \in DOMAIN t /\ N + 1 > i) /\ N + 1 \in DOMAIN t
  BY <1>1
<1>4. ASSUME request.kind = Adds(n) PROVE Keeps(t, K, c, n, h)
  <2> HIDE DEF t, m, kinds
  <2>1. t[N + 1].kind = Adds(n) /\ t[N + 1].calls
    BY <1>1, <1>4
  <2>2. \A i \in DOMAIN t : ~t[i].calls => N + 1 > i
    BY <1>3, <2>1
  <2> QED
    BY <1>3, <2>1, <2>2 DEF Keeps
<1>5. ASSUME request.kind # Adds(n) PROVE Keeps(t, K, c, n, h)
  <2>1. Keeps(m, K, c, n, h)
    <3>1. Adds(n) \notin kinds
      BY <1>5
    <3> HIDE DEF kinds
    <3> QED
      BY <3>1, KeepsMuted
  <2> HIDE DEF t, m, kinds
  <2>2. \A i \in DOMAIN t : t[i].kind = Adds(n) => i \in 1..N /\ t[i] = m[i]
    BY <1>1, <1>3, <1>5
  <2>3. \A i \in 1..N : i \in DOMAIN t /\ t[i] = m[i]
    BY <1>1, <1>3
  <2>4. h \in K /\ c.fresh => h \in Ids(c.data) \/ \E i \in DOMAIN t : t[i].kind = Adds(n) /\ t[i].calls
    BY <1>2, <2>1, <2>3 DEF Keeps
  <2>5. ASSUME NEW i \in DOMAIN t, t[i].kind = Adds(n), t[i].on = h, ~t[i].calls
        PROVE  \E j \in DOMAIN t : j > i /\ t[j].kind = Adds(n) /\ t[j].calls
    <3>1. i \in DOMAIN m /\ m[i].kind = Adds(n) /\ m[i].on = h /\ ~m[i].calls
      BY <1>2, <2>2, <2>5
    <3>2. PICK j \in DOMAIN m : j > i /\ m[j].kind = Adds(n) /\ m[j].calls
      BY <2>1, <3>1 DEF Keeps
    <3> QED
      BY <1>2, <2>3, <3>2
  <2> QED
    BY <2>4, <2>5 DEF Keeps
<1>6. Keeps(t, K, c, n, h)
  BY <1>4, <1>5
<1> QED
  BY <1>6 DEF t

LEMMA KeepsWithout ==
  ASSUME NEW reqs, IsSeq(reqs), NEW i \in DOMAIN reqs, NEW K, NEW K2, NEW c, NEW c2, NEW n, NEW h,
         Keeps(reqs, K, c, n, h), c2.data = c.data,
         c2.fresh => c.fresh /\ ~(reqs[i].kind = Adds(n) /\ reqs[i].calls),
         h \in K2 => h \in K \/ (reqs[i].kind = Adds(n) /\ reqs[i].on = h),
         reqs[i].kind = Adds(n) => \A j \in DOMAIN reqs : j < i => ~(reqs[j].kind = Adds(n) /\ reqs[j].on = h)
  PROVE  Keeps(Without(reqs, i), K2, c2, n, h)
<1> DEFINE t == Without(reqs, i)
           Calls(r) == r.kind = Adds(n) /\ r.calls
<1>0. PICK was : PlacedBefore(reqs, i, t, was)
  BY WithoutWas
<1>1. /\ \A k \in DOMAIN t : was[k] \in DOMAIN reqs /\ was[k] # i /\ t[k] = reqs[was[k]]
      /\ \A j \in DOMAIN reqs : j # i => \E k \in DOMAIN t : was[k] = j
      /\ \A k, l \in DOMAIN t : k <= l <=> was[k] <= was[l]
  BY <1>0 DEF PlacedBefore
<1>2. DOMAIN reqs \subseteq Int
  BY DEF IsSeq
<1>3. DOMAIN t \subseteq Int
  <2>1. IsSeq(t)
    BY WithoutIs
  <2> HIDE DEF t
  <2> QED
    BY <2>1 DEF IsSeq
<1> HIDE DEF t
<1>4. ASSUME NEW j \in DOMAIN reqs, j # i, Calls(reqs[j]) PROVE \E k \in DOMAIN t : was[k] = j /\ Calls(t[k])
  BY <1>1, <1>4
<1>5. ASSUME h \in K2, c2.fresh PROVE h \in Ids(c2.data) \/ \E k \in DOMAIN t : Calls(t[k])
  <2>1. c.fresh /\ ~Calls(reqs[i])
    BY <1>5
  <2>2. CASE h \in K
    <3>1. h \in Ids(c.data) \/ \E j \in DOMAIN reqs : Calls(reqs[j])
      BY <2>1, <2>2 DEF Keeps
    <3> HIDE DEF Calls
    <3> QED
      BY <1>4, <2>1, <3>1
  <2>3. CASE h \notin K
    <3>1. reqs[i].kind = Adds(n) /\ reqs[i].on = h /\ ~reqs[i].calls
      BY <1>5, <2>1, <2>3
    <3>2. PICK j \in DOMAIN reqs : j > i /\ Calls(reqs[j])
      BY <3>1 DEF Keeps
    <3>3. j # i
      BY <1>2, <3>2
    <3> HIDE DEF Calls
    <3> QED
      BY <1>4, <3>2, <3>3
  <2> QED
    BY <2>2, <2>3
<1>6. ASSUME NEW k \in DOMAIN t, t[k].kind = Adds(n), t[k].on = h, ~t[k].calls
      PROVE  \E l \in DOMAIN t : l > k /\ Calls(t[l])
  <2>1. was[k] \in DOMAIN reqs /\ was[k] # i /\ reqs[was[k]].kind = Adds(n) /\ reqs[was[k]].on = h /\ ~reqs[was[k]].calls
    BY <1>1, <1>6
  <2>2. PICK j \in DOMAIN reqs : j > was[k] /\ Calls(reqs[j])
    BY <2>1 DEF Keeps
  <2>3. j # i
    BY <1>2, <2>1, <2>2
  <2>4. PICK l \in DOMAIN t : was[l] = j /\ Calls(t[l])
    BY <1>4, <2>2, <2>3
  <2>5. ~(was[l] <= was[k])
    BY <1>2, <2>1, <2>2, <2>4
  <2>6. ~(l <= k)
    BY <1>1, <2>5
  <2> QED
    BY <1>3, <2>4, <2>6
<1>7. Keeps(t, K2, c2, n, h)
  BY <1>5, <1>6 DEF Keeps
<1> QED
  BY <1>7 DEF t

LEMMA KeepsFrom ==
  ASSUME NEW reqs, NEW K, NEW c, NEW c2, NEW n, NEW h, Keeps(reqs, K, c, n, h), c2.data = c.data, c2.fresh => c.fresh
  PROVE  Keeps(reqs, K, c2, n, h)
  BY DEF Keeps

\* The bar's Clear sends a change for each home it clears.
LEMMA JoinedMarks ==
  ASSUME NEW reqs, Requests(reqs), NEW more, IsSeq(more), \A k \in DOMAIN more : more[k].kind = "unsave",
         NEW M, NEW M2, NEW K, NEW c, NEW n \in Overlays, NEW h, Agrees(reqs, M, K, n, h), Keeps(reqs, K, c, n, h),
         (\E k \in DOMAIN more : Served(more[k], n, h)) => h \notin M2,
         (\A k \in DOMAIN more : ~Served(more[k], n, h)) => (h \in M2 <=> h \in M)
  PROVE  Agrees(Joined(reqs, more), M2, K, n, h) /\ Keeps(Joined(reqs, more), K, c, n, h)
<1> DEFINE t == Joined(reqs, more)
<1>1. PICK N \in Nat : DOMAIN reqs = 1..N
  BY DEF Requests, IsSeq
<1>2. PICK m \in Nat : DOMAIN more = 1..m
  BY DEF IsSeq
<1>3. DOMAIN t = 1..(N + m) /\ (\A i \in 1..N : t[i] = reqs[i]) /\ \A k \in 1..m : t[N + k] = more[k]
  BY <1>1, <1>2, JoinedAt DEF Requests
<1> HIDE DEF t
<1>4. \A i \in 1..(N + m) : i \in 1..N \/ (i - N \in 1..m /\ N + (i - N) = i /\ ~(i <= N))
  BY <1>1, <1>2
<1>5. (\A i \in 1..N : i \in 1..(N + m)) /\ \A k \in 1..m : N + k \in 1..(N + m)
  BY <1>1, <1>2
<1>6. \A i \in DOMAIN t : i \in 1..N \/ (t[i] = more[i - N] /\ i - N \in 1..m /\ t[i].kind = "unsave")
  <2> SUFFICES ASSUME NEW i \in DOMAIN t, i \notin 1..N
               PROVE  t[i] = more[i - N] /\ i - N \in 1..m /\ t[i].kind = "unsave"
    OBVIOUS
  <2>1. i - N \in 1..m /\ N + (i - N) = i
    BY <1>3, <1>4
  <2>2. t[N + (i - N)] = more[i - N] /\ more[i - N].kind = "unsave"
    BY <1>2, <1>3, <2>1
  <2> QED
    BY <2>1, <2>2
<1>7. "unsave" # Adds(n)
  BY AddsAre
<1>8. ASSUME \E k \in 1..m : Served(more[k], n, h) PROVE Agrees(t, M2, K, n, h)
  <2>1. PICK k \in 1..m : Served(more[k], n, h)
    BY <1>8
  <2>2. N + k \in DOMAIN t /\ Served(t[N + k], n, h)
    BY <1>3, <1>5, <2>1
  <2>3. \A i \in 1..N : ~(N + k <= i)
    BY <1>1, <2>1
  <2>4. ASSUME NEW i \in DOMAIN t, \A j \in DOMAIN t : Served(t[j], n, h) => j <= i PROVE t[i].kind = "unsave"
    BY <1>6, <2>2, <2>3, <2>4
  <2>5. h \notin M2
    BY <1>2, <1>8
  <2> QED
    BY <1>7, <2>2, <2>4, <2>5 DEF Agrees
<1>9. ASSUME \A k \in 1..m : ~Served(more[k], n, h) PROVE Agrees(t, M2, K, n, h)
  <2>1. h \in M2 <=> h \in M
    BY <1>2, <1>9
  <2>2. \A i \in DOMAIN t : Served(t[i], n, h) => i \in 1..N /\ t[i] = reqs[i]
    BY <1>3, <1>6, <1>9
  <2>3. \A i \in 1..N : i \in DOMAIN t /\ t[i] = reqs[i]
    BY <1>3, <1>5
  <2>4. (\A i \in DOMAIN t : ~Served(t[i], n, h)) => (h \in M2 <=> h \in K)
    BY <1>1, <2>1, <2>3 DEF Agrees
  <2>5. ASSUME NEW i \in DOMAIN t, Served(t[i], n, h), \A j \in DOMAIN t : Served(t[j], n, h) => j <= i
        PROVE  h \in M2 <=> t[i].kind = Adds(n)
    <3>1. i \in DOMAIN reqs /\ t[i] = reqs[i] /\ Served(reqs[i], n, h)
      BY <1>1, <2>2, <2>5
    <3>2. \A j \in DOMAIN reqs : Served(reqs[j], n, h) => j <= i
      BY <1>1, <2>3, <2>5
    <3>3. h \in M <=> reqs[i].kind = Adds(n)
      BY <3>1, <3>2 DEF Agrees
    <3> QED
      BY <2>1, <3>1, <3>3
  <2> QED
    BY <2>4, <2>5 DEF Agrees
<1>10. Keeps(t, K, c, n, h)
  <2>1. \A i \in DOMAIN t : t[i].kind = Adds(n) => i \in DOMAIN reqs /\ t[i] = reqs[i]
    BY <1>1, <1>3, <1>6, <1>7
  <2>2. \A i \in DOMAIN reqs : i \in DOMAIN t /\ t[i] = reqs[i]
    BY <1>1, <1>3, <1>5
  <2>3. h \in K /\ c.fresh => h \in Ids(c.data) \/ \E i \in DOMAIN t : t[i].kind = Adds(n) /\ t[i].calls
    BY <2>2 DEF Keeps
  <2>4. ASSUME NEW i \in DOMAIN t, t[i].kind = Adds(n), t[i].on = h, ~t[i].calls
        PROVE  \E j \in DOMAIN t : j > i /\ t[j].kind = Adds(n) /\ t[j].calls
    <3>1. PICK j \in DOMAIN reqs : j > i /\ reqs[j].kind = Adds(n) /\ reqs[j].calls
      BY <2>1, <2>4 DEF Keeps
    <3> QED
      BY <2>2, <3>1
  <2> QED
    BY <2>3, <2>4 DEF Keeps
<1>11. Agrees(t, M2, K, n, h) /\ Keeps(t, K, c, n, h)
  BY <1>8, <1>9, <1>10
<1> QED
  BY <1>11 DEF t
-----------------------------------------------------------------------------
(* The homes kept: each once, with its columns, and of the server's catalogue. *)

IsItem(x) == {x.id, x.seen, x.address} \subseteq Nat /\ {x.price, x.bedrooms, x.postcode, x.combinedScore} \subseteq Value
Items(data, ids) == Keyed(data) /\ \A x \in data : IsItem(x) /\ x.id \in ids

ItemInv ==
  /\ \A n \in {"list", "saved", "dismissed"} : Items(Data(Q(n)), Ids(rows))
  /\ saved \union hidden \subseteq Ids(rows)
  /\ \A i \in DOMAIN requests : requests[i].kind \in {"save", "dismiss"} => requests[i].on \in Ids(rows)

LEMMA ScoredItems ==
  ASSUME NEW table, Keyed(table), \A row \in table : IsListing(row), NEW search
  PROVE  Items(attachScores(table, search), Ids(table)) /\ Ids(attachScores(table, search)) = Ids(table)
<1> DEFINE item(row) ==
      [id |-> row.id, address |-> row.address, postcode |-> row.postcode, outcode |-> row.outcode,
       price |-> row.price, bedrooms |-> row.bedrooms, seen |-> row.seen, source |-> row.source,
       link |-> row.link, agency |-> row.agency, combinedScore |-> ScoreOf(row, search)]
           items == attachScores(table, search)
<1>1. items = {item(row) : row \in table}
  BY DEF attachScores
<1>2. \A row \in table : item(row).id = row.id
  OBVIOUS
<1>3. ASSUME NEW row \in table PROVE IsItem(item(row))
  <2>1. ScoreOf(row, search) \in Value
    BY ScoreIsValue
  <2>2. IsListing(row)
    OBVIOUS
  <2> QED
    BY <2>1, <2>2 DEF IsItem, IsListing
<1> HIDE DEF item, items
<1>4. Ids(items) = Ids(table)
  BY <1>1, <1>2 DEF Ids
<1>5. Keyed(items)
  BY <1>1, <1>2 DEF Keyed
<1>6. \A x \in items : IsItem(x) /\ x.id \in Ids(table)
  BY <1>1, <1>2, <1>3 DEF Ids
<1> QED
  BY <1>4, <1>5, <1>6 DEF items, Items

LEMMA HydratedItems ==
  ASSUME Tables, NEW ids
  PROVE  Items(hydrate(rows, ids), Ids(rows)) /\ Ids(hydrate(rows, ids)) = ids \intersect Ids(rows)
<1> DEFINE table == {row \in rows : row.id \in ids}
<1>1. Keyed(table) /\ \A row \in table : IsListing(row)
  BY DEF Tables, Keyed
<1>2. Ids(table) = ids \intersect Ids(rows)
  BY DEF Ids
<1> HIDE DEF table
<1>3. Items(attachScores(table, NoSearch), Ids(table)) /\ Ids(attachScores(table, NoSearch)) = Ids(table)
  BY <1>1, ScoredItems
<1> QED
  BY <1>2, <1>3 DEF Items, hydrate, table

LEMMA ListedItems == Tables => Items(Answer(Q("list")), Ids(rows))
<1> SUFFICES ASSUME Tables PROVE Items(Answer(Q("list")), Ids(rows))
  OBVIOUS
<1> DEFINE input == listQueryInput
           items == list(rows, input).items
           table == Range(items)
<1>1. input.limit \in Int /\ input.sort.dir \in {"asc", "desc"} /\ input.cursor = NoCursor
  BY ListInput, PageAssumption
<1>2. IsFiniteSet(rows) /\ Keyed(rows) /\ \A row \in rows : IsListing(row)
  BY DEF Tables
<1> HIDE DEF input
<1>3. table \subseteq rows
  <2> DEFINE due == Due("listings", input, rows, input.cursor)
  <2>1. IsPage(items, list(rows, input).nextCursor, due, DueOrder("listings", input, due),
               clampLimit(input.limit), Spots("listings", input, due))
    BY <1>1, <1>2, ListingsPage
  <2>2. due \subseteq rows
    BY DEF Due
  <2> HIDE DEF items, due
  <2>3. \A i \in DOMAIN items : items[i] \in due
    BY <2>1 DEF IsPage
  <2> QED
    BY <2>2, <2>3 DEF Range
<1> HIDE DEF items, table
<1>4. Keyed(table) /\ (\A row \in table : IsListing(row)) /\ Ids(table) \subseteq Ids(rows)
  BY <1>2, <1>3 DEF Keyed, Ids
<1>5. Items(attachScores(table, input.search), Ids(table))
  BY <1>4, ScoredItems
<1>6. Items(attachScores(table, input.search), Ids(rows))
  BY <1>4, <1>5 DEF Items
<1>7. Answer(Q("list")) = attachScores(Range(list(rows, listQueryInput).items), listQueryInput.search)
  BY DEF Answer, Q
<1> QED
  BY <1>6, <1>7 DEF table, items, input

LEMMA AnswerItems ==
  ASSUME Tables, NEW n \in {"list", "saved", "dismissed"} PROVE Items(Answer(Q(n)), Ids(rows))
<1>1. Answer(Q("saved")) = hydrate(rows, saved) /\ Answer(Q("dismissed")) = hydrate(rows, hidden)
  BY DEF Answer, Q
<1> QED
  BY <1>1, ListedItems, HydratedItems

LEMMA IdsGrow == ASSUME Tables, Shapes, [Next]_vars PROVE Ids(rows) \subseteq Ids(rows')
<1>1. CASE rows' = rows
  BY <1>1
<1>2. CASE Reobserve
  <2>1. PICK row : rows' = {row} \union {r \in rows : r.id # row.id}
    BY <1>2, ReobserveIs
  <2> QED
    BY <2>1 DEF Ids
<1>3. UNCHANGED server => rows' = rows
  BY DEF server
<1>4. WalkOn \/ UNCHANGED vars => UNCHANGED server
  BY DEF WalkOn, vars
<1>5. Pool => rows' = rows
  BY PoolIs
<1>6. ASSUME NEW i \in DOMAIN requests, NEW outcome, Settle(i, outcome) PROVE rows' = rows
  BY <1>6, SettleTables
<1> QED
  BY <1>1, <1>2, <1>3, <1>4, <1>5, <1>6, ScreenFrame, NavigateFrame, DeskFrame, FetchFrame DEF Next

\* The server's two sets under a change.
LEMMA CarryMarks ==
  ASSUME NEW r, r.kind \in Kinds, Carry(r)
  PROVE  /\ r.kind = "save"    => saved' = saved \union {r.on} /\ hidden' = hidden
         /\ r.kind = "unsave"  => saved' = saved \ {r.on} /\ hidden' = hidden
         /\ r.kind = "dismiss" => hidden' = hidden \union {r.on} /\ saved' = saved
         /\ r.kind = "restore" => hidden' = hidden \ {r.on} /\ saved' = saved
         /\ r.kind \notin Overlay => saved' = saved /\ hidden \subseteq hidden' /\ hidden' \subseteq hidden \union Ids(rows)
<1>1. r.kind = "save" => bookmark(r.on)
  BY DEF Carry
<1>2. r.kind = "unsave" => unbookmark(r.on)
  BY DEF Carry
<1>3. r.kind = "dismiss" => hide(r.on)
  BY DEF Carry
<1>4. r.kind = "restore" => unhide(r.on)
  BY DEF Carry
<1>5. ASSUME r.kind \notin Overlay
      PROVE  saved' = saved /\ hidden \subseteq hidden' /\ hidden' \subseteq hidden \union Ids(rows)
  <2>1. CASE r.kind \in {"create", "update", "setStatus"}
    <3>1. create(r.what) \/ update(r.on, r.what) \/ setStatus(r.on, r.what)
      BY <2>1 DEF Carry
    <3> QED
      BY <3>1 DEF create, update, setStatus
  <2>2. CASE r.kind = "remove"
    <3>1. removeSearch(r.on)
      BY <2>2 DEF Carry
    <3>2. saved' = saved /\ hidden' = hidden \union {row.id : row \in {x \in rows : x.outcode \in SearchOf(r.on).outcodes}}
      BY Zenon, <3>1 DEF removeSearch
    <3> QED
      BY <3>2 DEF Ids
  <2>3. CASE r.kind \in {"erase", "launch", "approve", "refresh"}
    <3>1. eraseAgent(r.on) \/ launch(r.on) \/ approveSends(r.on, r.what) \/ refresh
      BY <2>3 DEF Carry
    <3> QED
      BY <3>1 DEF eraseAgent, launch, approveSends, refresh
  <2> QED
    BY <1>5, <2>1, <2>2, <2>3 DEF Kinds
<1>6. "save" \in Overlay /\ "unsave" \in Overlay /\ "dismiss" \in Overlay /\ "restore" \in Overlay
  BY DEF Overlay
<1> QED
  BY <1>1, <1>2, <1>3, <1>4, <1>5 DEF bookmark, unbookmark, hide, unhide

LEMMA SettleMarks ==
  ASSUME Shapes, NEW i \in DOMAIN requests, NEW outcome, Settle(i, outcome)
  PROVE  /\ requests[i].kind \in Overlay =>
              IF outcome = "failed" THEN UNCHANGED <<saved, hidden>> ELSE Carry(requests[i])
         /\ requests[i].kind \notin Overlay =>
              saved' = saved /\ hidden \subseteq hidden' /\ hidden' \subseteq hidden \union Ids(rows)
<1> DEFINE r == requests[i]
<1>1. r.kind \in Kinds
  BY DEF Shapes, Requests, IsRequest
<1>2. IF outcome = "failed" \/ ~Found(r)
      THEN IF r.kind = "approve"
           THEN \E some \in SUBSET r.what : Carry([r EXCEPT !.what = some])
           ELSE UNCHANGED server
      ELSE Carry(r)
  BY Zenon DEF Settle
<1>3. ASSUME r.kind \in Overlay PROVE IF outcome = "failed" THEN UNCHANGED <<saved, hidden>> ELSE Carry(r)
  <2>1. r.kind # "approve" /\ Found(r)
    BY <1>3 DEF Found, Overlay
  <2>2. IF outcome = "failed" THEN UNCHANGED server ELSE Carry(r)
    BY <1>2, <2>1
  <2> QED
    BY <2>2 DEF server
<1>4. ASSUME r.kind \notin Overlay
      PROVE  saved' = saved /\ hidden \subseteq hidden' /\ hidden' \subseteq hidden \union Ids(rows)
  <2>1. UNCHANGED server \/ \E q : Effect(r, q)
    BY SettleServer
  <2>2. ASSUME NEW q, Effect(r, q)
        PROVE  saved' = saved /\ hidden \subseteq hidden' /\ hidden' \subseteq hidden \union Ids(rows)
    <3>1. q.kind \in Kinds /\ q.kind \notin Overlay /\ Carry(q)
      BY <1>4, <2>2 DEF Effect
    <3> QED
      BY <3>1, CarryMarks
  <2>3. UNCHANGED server => UNCHANGED <<saved, hidden>>
    BY DEF server
  <2> QED
    BY <2>1, <2>2, <2>3
<1> QED
  BY <1>3, <1>4

LEMMA MarksStay ==
  ASSUME [Next]_vars
  PROVE  \/ UNCHANGED <<saved, hidden>>
         \/ \E i \in DOMAIN requests, outcome \in {"done", "lost", "failed"} : Settle(i, outcome)
<1>1. UNCHANGED server => UNCHANGED <<saved, hidden>>
  BY DEF server
<1>2. WalkOn \/ UNCHANGED vars => UNCHANGED server
  BY DEF WalkOn, vars
<1> QED
  BY <1>1, <1>2, ScreenFrame, NavigateFrame, DeskFrame, FetchFrame, ElsewhereIs DEF Next

LEMMA HeldStays ==
  ASSUME Shapes, ItemInv, [Next]_vars PROVE saved' \union hidden' \subseteq Ids(rows)
<1>1. saved \union hidden \subseteq Ids(rows)
  BY DEF ItemInv
<1>2. ASSUME NEW i \in DOMAIN requests, NEW outcome, Settle(i, outcome) PROVE saved' \union hidden' \subseteq Ids(rows)
  <2> DEFINE r == requests[i]
  <2>1. /\ r.kind \in Overlay => IF outcome = "failed" THEN UNCHANGED <<saved, hidden>> ELSE Carry(r)
        /\ r.kind \notin Overlay => saved' = saved /\ hidden' \subseteq hidden \union Ids(rows)
    BY <1>2, SettleMarks
  <2>2. r.kind \in Kinds /\ (r.kind \in {"save", "dismiss"} => r.on \in Ids(rows))
    BY DEF Shapes, Requests, IsRequest, ItemInv
  <2> HIDE DEF r
  <2>3. CASE r.kind \in Overlay /\ Carry(r)
    BY <1>1, <2>2, <2>3, CarryMarks DEF Overlay
  <2> QED
    BY <1>1, <2>1, <2>3
<1> QED
  BY <1>1, <1>2, MarksStay

LEMMA ViewIds == \A items : Ids(ViewRows(items)) = Ids(items)
<1> SUFFICES ASSUME NEW items PROVE Ids(ViewRows(items)) = Ids(items)
  OBVIOUS
<1> DEFINE view(item) == toViewRow(item, Now)
<1>1. \A item \in items : view(item).id = item.id
  BY DEF toViewRow
<1>2. ViewRows(items) = {view(item) : item \in items}
  BY DEF ViewRows
<1> HIDE DEF view
<1> QED
  BY <1>1, <1>2 DEF Ids

LEMMA HomesAre == ASSUME ItemInv PROVE Homes \subseteq Ids(rows)
<1>1. \A n \in {"list", "saved", "dismissed"} : Ids(ViewRows(Data(Q(n)))) \subseteq Ids(rows)
  <2> SUFFICES ASSUME NEW n \in {"list", "saved", "dismissed"} PROVE Ids(Data(Q(n))) \subseteq Ids(rows)
    BY ViewIds
  <2>1. \A x \in Data(Q(n)) : x.id \in Ids(rows)
    BY DEF ItemInv, Items
  <2> QED
    BY <2>1 DEF Ids
<1> DEFINE page == ViewRows(Data(Q("list")))
           kept == ViewRows(Data(Q("saved")))
           gone == ViewRows(Data(Q("dismissed")))
<1>2. ScreenRows = Under(page, Under(gone, kept))
  BY DEF ScreenRows, byId
<1>3. Ids(page) \subseteq Ids(rows) /\ Ids(kept) \subseteq Ids(rows) /\ Ids(gone) \subseteq Ids(rows)
  BY <1>1
<1> HIDE DEF page, kept, gone
<1>4. Ids(ScreenRows) \subseteq Ids(rows)
  BY <1>2, <1>3 DEF Under, Ids
<1>5. \A b : Bucket(b) \subseteq ScreenRows \/ Bucket(b) \subseteq page
  BY DEF Bucket, displayRows, page
<1>6. \A b : Ids(Bucket(b)) \subseteq Ids(rows)
  BY <1>3, <1>4, <1>5 DEF Ids
<1> QED
  BY <1>6 DEF Homes

LEMMA InitItems == Init => ItemInv
<1> SUFFICES ASSUME Init PROVE ItemInv
  OBVIOUS
<1>1. cache = [q \in Queries |-> Nowhere] /\ requests = <<>> /\ saved = {} /\ hidden = {}
  BY Zenon DEF Init
<1>2. \A n \in {"list", "saved", "dismissed"} : Data(Q(n)) = {}
  BY <1>1, QueriesAre DEF Data, Nowhere
<1> QED
  BY <1>1, <1>2 DEF ItemInv, Items, Keyed

LEMMA NextItems == Tables /\ Shapes /\ ItemInv /\ [Next]_vars => ItemInv'
<1> SUFFICES ASSUME Tables, Shapes, ItemInv, [Next]_vars PROVE ItemInv'
  OBVIOUS
<1>1. Ids(rows) \subseteq Ids(rows')
  BY IdsGrow
<1>2. ASSUME NEW n \in {"list", "saved", "dismissed"} PROVE Items(cache'[Q(n)].data, Ids(rows'))
  <2>1. Q(n) \in Queries
    BY QueriesAre
  <2>2. cache'[Q(n)].data \in {{}, Data(Q(n)), Answer(Q(n))}
    <3>1. CacheMoves(cache')
      BY NextCache
    <3> QED
      BY <2>1, <3>1 DEF CacheMoves, Nowhere
  <2>3. Items({}, Ids(rows)) /\ Items(Data(Q(n)), Ids(rows)) /\ Items(Answer(Q(n)), Ids(rows))
    BY AnswerItems DEF ItemInv, Items, Keyed
  <2> QED
    BY <1>1, <2>2, <2>3 DEF Items
<1>3. saved' \union hidden' \subseteq Ids(rows')
  BY <1>1, HeldStays
<1>4. ASSUME NEW i \in DOMAIN requests', requests'[i].kind \in {"save", "dismiss"} PROVE requests'[i].on \in Ids(rows')
  <2>1. Carried(requests'[i]) \/ Asked(requests'[i])
    BY NextMoves DEF RequestsMove
  <2>2. CASE Carried(requests'[i])
    <3>1. PICK j \in DOMAIN requests : requests[j].kind = requests'[i].kind /\ requests[j].on = requests'[i].on
      BY <2>2 DEF Carried, Same
    <3> QED
      BY <1>1, <1>4, <3>1 DEF ItemInv
  <2>3. CASE Asked(requests'[i])
    <3>1. requests'[i].on \in Homes
      BY <1>4, <2>3 DEF Asked
    <3> QED
      BY <1>1, <3>1, HomesAre
  <2> QED
    BY <2>1, <2>2, <2>3
<1> QED
  BY <1>2, <1>3, <1>4 DEF ItemInv, Data
-----------------------------------------------------------------------------
(* The two sets of the screen follow the server's. *)

MarkedIn(scr, n) == IF n = "saved" THEN scr.interested ELSE scr.dismissed
Held(n) == IF n = "saved" THEN saved ELSE hidden
IsScreen(scr) == DOMAIN scr = DOMAIN NewScreen /\ scr.seeded \subseteq Overlays

MarkInv ==
  /\ IsScreen(screen)
  /\ \A n \in screen.seeded : \A h : <<n, h>> \notin astray =>
       Agrees(requests, MarkedIn(screen, n), Held(n), n, h) /\ Keeps(requests, Held(n), cache[Q(n)], n, h)

\* A set seeded is marked as the answer has it; of the homes it does not get wrong
\* the server holds the same, and no change is on its way.
Seeded(n, c) ==
  /\ MarkedIn(screen', n) = Ids(c[Q(n)].data)
  /\ \A h : <<n, h>> \notin astray' =>
       (h \in Held(n) <=> h \in Ids(c[Q(n)].data)) /\ \A i \in DOMAIN requests : ~Served(requests[i], n, h)

LEMMA MissesAre ==
  ASSUME NEW n \in Overlays, NEW c, NEW h, <<n, h>> \notin Misses(n, c)
  PROVE  (h \in Held(n) <=> h \in Ids(c[Q(n)].data)) /\ \A i \in DOMAIN requests : ~Served(requests[i], n, h)
<1> DEFINE shown == Ids(c[Q(n)].data)
           sent == {requests[i].on : i \in {j \in DOMAIN requests :
                      requests[j].kind \in Overlay /\ Serves(requests[j].kind) = n}}
           missed == (Held(n) \ shown) \union (shown \ Held(n)) \union sent
<1>1. Misses(n, c) = {<<n, x>> : x \in missed}
  BY DEF Misses, Held, Overlays
<1>2. h \notin missed
  BY <1>1
<1>3. \A i \in DOMAIN requests : Served(requests[i], n, h) => h \in sent
  BY DEF Served
<1> HIDE DEF shown, sent
<1>4. (h \in Held(n) <=> h \in shown) /\ h \notin sent
  BY <1>2
<1> QED
  BY <1>3, <1>4 DEF shown

LEMMA SeedIs ==
  ASSUME NEW scr, IsScreen(scr), NEW c, SeedFrom(scr, c)
  PROVE  /\ IsScreen(screen')
         /\ \A n \in screen'.seeded :
              \/ /\ n \in scr.seeded /\ MarkedIn(screen', n) = MarkedIn(scr, n)
                 /\ \A h : <<n, h>> \notin astray' => <<n, h>> \notin astray
              \/ Seeded(n, c)
<1> DEFINE now == Seeds(scr, c)
<1>1. screen' = [scr EXCEPT !.interested = IF "saved" \in now THEN Ids(c[Q("saved")].data) ELSE @,
                            !.dismissed = IF "dismissed" \in now THEN Ids(c[Q("dismissed")].data) ELSE @,
                            !.seeded = @ \union now]
  BY DEF SeedFrom, Seed
<1>2. astray' = {x \in astray : x[1] \notin now} \union UNION {Misses(n, c) : n \in now}
  BY DEF SeedFrom
<1>3. now \subseteq Overlays
  BY DEF Seeds, Overlays
<1> HIDE DEF now
<1>4. DOMAIN scr = {"interested", "dismissed", "seeded", "undo"}
  BY DEF IsScreen, NewScreen
<1>5. /\ DOMAIN screen' = DOMAIN scr /\ screen'.seeded = scr.seeded \union now
      /\ screen'.interested = (IF "saved" \in now THEN Ids(c[Q("saved")].data) ELSE scr.interested)
      /\ screen'.dismissed = (IF "dismissed" \in now THEN Ids(c[Q("dismissed")].data) ELSE scr.dismissed)
  BY <1>1, <1>4
<1>6. IsScreen(screen')
  BY <1>3, <1>5 DEF IsScreen
<1>7. ASSUME NEW n \in now PROVE Seeded(n, c)
  <2>1. n \in Overlays
    BY <1>3
  <2>2. MarkedIn(screen', n) = Ids(c[Q(n)].data)
    BY <1>5, <2>1 DEF MarkedIn, Overlays
  <2>3. \A h : <<n, h>> \notin astray' => <<n, h>> \notin Misses(n, c)
    BY <1>2
  <2> QED
    BY <2>1, <2>2, <2>3, MissesAre DEF Seeded
<1>8. ASSUME NEW n \in scr.seeded, n \notin now
      PROVE  /\ MarkedIn(screen', n) = MarkedIn(scr, n)
             /\ \A h : <<n, h>> \notin astray' => <<n, h>> \notin astray
  <2>1. n \in Overlays
    BY DEF IsScreen
  <2>2. MarkedIn(screen', n) = MarkedIn(scr, n)
    BY <1>5, <1>8, <2>1 DEF MarkedIn, Overlays
  <2>3. \A h : <<n, h>> \in astray => <<n, h>> \in astray'
    BY <1>2, <1>8
  <2> QED
    BY <2>2, <2>3
<1> QED
  BY <1>5, <1>6, <1>7, <1>8

LEMMA SeededFollows ==
  ASSUME NEW n, NEW c, Seeded(n, c), NEW h, <<n, h>> \notin astray', NEW reqs, DOMAIN reqs = DOMAIN requests,
         \A i \in DOMAIN requests : reqs[i].kind = requests[i].kind /\ reqs[i].on = requests[i].on, n \in Overlays
  PROVE  Agrees(reqs, MarkedIn(screen', n), Held(n), n, h) /\ Keeps(reqs, Held(n), c[Q(n)], n, h)
<1>1. \A i \in DOMAIN reqs : ~Served(reqs[i], n, h)
  BY DEF Seeded, Served
<1>2. \A i \in DOMAIN reqs : ~(reqs[i].kind = Adds(n) /\ reqs[i].on = h)
  BY <1>1, AddsAre DEF Served
<1>3. MarkedIn(screen', n) = Ids(c[Q(n)].data) /\ (h \in Held(n) <=> h \in Ids(c[Q(n)].data))
  BY DEF Seeded
<1>4. Agrees(reqs, MarkedIn(screen', n), Held(n), n, h)
  BY <1>1, <1>3 DEF Agrees
<1>5. Keeps(reqs, Held(n), c[Q(n)], n, h)
  BY <1>2, <1>3 DEF Keeps
<1> QED
  BY <1>4, <1>5

LEMMA MarkSent ==
  ASSUME Shapes, MarkInv, NEW kind \in Kinds, NEW on, NEW what, requests' = Sent(requests, Request(kind, on, what)),
         UNCHANGED <<saved, hidden, cache, astray>>, IsScreen(screen'), screen'.seeded = screen.seeded,
         \A n \in Overlays : \A h : IF kind \in Overlay /\ Serves(kind) = n /\ on = h
                                     THEN h \in MarkedIn(screen', n) <=> kind = Adds(n)
                                     ELSE h \in MarkedIn(screen', n) <=> h \in MarkedIn(screen, n)
  PROVE  MarkInv'
<1> DEFINE r == Request(kind, on, what)
<1>1. IsRequest(r) /\ r.kind = kind /\ r.on = on
  BY RequestIs
<1>2. r.calls
  BY DEF Request
<1> HIDE DEF r
<1>3. requests' = Sent(requests, r) /\ Requests(requests)
  BY DEF r, Shapes
<1>4. ASSUME NEW n \in screen.seeded, NEW h, <<n, h>> \notin astray
      PROVE  /\ Agrees(requests', MarkedIn(screen', n), Held(n), n, h)
             /\ Keeps(requests', Held(n), cache[Q(n)], n, h)
  <2>1. n \in Overlays /\ Agrees(requests, MarkedIn(screen, n), Held(n), n, h) /\ Keeps(requests, Held(n), cache[Q(n)], n, h)
    BY <1>4 DEF MarkInv, IsScreen
  <2>2. Served(r, n, h) => (h \in MarkedIn(screen', n) <=> r.kind = Adds(n))
    BY <1>1, <2>1 DEF Served
  <2>3. ~Served(r, n, h) => (h \in MarkedIn(screen', n) <=> h \in MarkedIn(screen, n))
    BY <1>1, <2>1 DEF Served
  <2>4. Agrees(Sent(requests, r), MarkedIn(screen', n), Held(n), n, h)
    BY <1>1, <1>3, <2>1, <2>2, <2>3, AgreesSent
  <2>5. Keeps(Sent(requests, r), Held(n), cache[Q(n)], n, h)
    BY <1>1, <1>2, <1>3, <2>1, KeepsSent
  <2> QED
    BY <1>3, <2>4, <2>5
<1>5. Held("saved")' = Held("saved") /\ Held("dismissed")' = Held("dismissed")
  BY DEF Held
<1>6. \A n \in screen.seeded : n \in Overlays
  BY DEF MarkInv, IsScreen
<1> QED
  BY <1>4, <1>5, <1>6 DEF MarkInv, Overlays, Held

LEMMA ToggleMark == ASSUME Shapes, MarkInv, NEW home, toggleInterest(home) PROVE MarkInv'
<1> DEFINE kind == IF home \in screen.interested THEN "unsave" ELSE "save"
<1>1. /\ screen' = [screen EXCEPT !.interested = toggleArr(@, home)]
      /\ requests' = Sent(requests, Request(kind, home, {}))
      /\ UNCHANGED <<server, cache, history>>
  BY DEF toggleInterest
<1>2. DOMAIN screen = {"interested", "dismissed", "seeded", "undo"}
  BY DEF MarkInv, IsScreen, NewScreen
<1>3. /\ DOMAIN screen' = DOMAIN screen /\ screen'.seeded = screen.seeded /\ screen'.dismissed = screen.dismissed
      /\ screen'.interested = toggleArr(screen.interested, home)
  BY <1>1, <1>2
<1>4. IsScreen(screen')
  BY <1>3 DEF MarkInv, IsScreen
<1>5. kind \in {"save", "unsave"} /\ kind \in Kinds /\ kind \in Overlay /\ Serves(kind) = "saved"
      /\ (kind = "save" <=> home \notin screen.interested)
  BY KindsAre DEF Serves
<1> HIDE DEF kind
<1>6. ASSUME NEW n \in Overlays, NEW h
      PROVE  IF kind \in Overlay /\ Serves(kind) = n /\ home = h
             THEN h \in MarkedIn(screen', n) <=> kind = Adds(n)
             ELSE h \in MarkedIn(screen', n) <=> h \in MarkedIn(screen, n)
  <2>1. CASE n = "saved"
    <3>1. MarkedIn(screen', n) = toggleArr(screen.interested, home) /\ MarkedIn(screen, n) = screen.interested
          /\ Adds(n) = "save"
      BY <1>3, <2>1 DEF MarkedIn, Adds
    <3>2. home \in toggleArr(screen.interested, home) <=> home \notin screen.interested
      BY DEF toggleArr
    <3>3. h # home => (h \in toggleArr(screen.interested, home) <=> h \in screen.interested)
      BY DEF toggleArr
    <3> QED
      BY <1>5, <2>1, <3>1, <3>2, <3>3
  <2>2. CASE n = "dismissed"
    BY <1>3, <1>5, <2>2 DEF MarkedIn
  <2> QED
    BY <2>1, <2>2 DEF Overlays
<1>7. UNCHANGED <<saved, hidden, cache, astray>>
  BY <1>1 DEF server, history
<1> QED
  BY <1>1, <1>3, <1>4, <1>5, <1>6, <1>7, MarkSent

LEMMA HideMark ==
  ASSUME Shapes, MarkInv, NEW home, NEW kind \in {"dismiss", "restore"},
         DOMAIN screen' = DOMAIN screen, screen'.seeded = screen.seeded, screen'.interested = screen.interested,
         home \in screen'.dismissed <=> kind = "dismiss",
         \A h : h # home => (h \in screen'.dismissed <=> h \in screen.dismissed),
         requests' = Sent(requests, Request(kind, home, {})), UNCHANGED <<server, cache, history>>
  PROVE  MarkInv'
<1>5. IsScreen(screen')
  BY DEF MarkInv, IsScreen
<1>6. kind \in Kinds /\ kind \in Overlay /\ Serves(kind) = "dismissed"
  BY KindsAre DEF Serves
<1>7. ASSUME NEW n \in Overlays, NEW h
      PROVE  IF kind \in Overlay /\ Serves(kind) = n /\ home = h
             THEN h \in MarkedIn(screen', n) <=> kind = Adds(n)
             ELSE h \in MarkedIn(screen', n) <=> h \in MarkedIn(screen, n)
  <2>1. CASE n = "dismissed"
    <3>1. MarkedIn(screen', n) = screen'.dismissed /\ MarkedIn(screen, n) = screen.dismissed /\ Adds(n) = "dismiss"
      BY <2>1 DEF MarkedIn, Adds
    <3> QED
      BY <1>6, <2>1, <3>1
  <2>2. CASE n = "saved"
    BY <1>6, <2>2 DEF MarkedIn
  <2> QED
    BY <2>1, <2>2 DEF Overlays
<1>8. UNCHANGED <<saved, hidden, cache, astray>>
  BY DEF server, history
<1> QED
  BY <1>5, <1>6, <1>7, <1>8, MarkSent

LEMMA MarksMark == ASSUME Shapes, MarkInv, Marks PROVE MarkInv'
<1>0. DOMAIN screen = {"interested", "dismissed", "seeded", "undo"}
  BY DEF MarkInv, IsScreen, NewScreen
<1>1. ASSUME NEW home, dismiss(home) PROVE MarkInv'
  <2>1. screen' = [screen EXCEPT !.dismissed = screen.dismissed \union {home}, !.undo = home]
    BY <1>1 DEF dismiss
  <2>2. requests' = Sent(requests, Request("dismiss", home, {})) /\ UNCHANGED <<server, cache, history>>
    BY <1>1 DEF dismiss
  <2>3. /\ DOMAIN screen' = DOMAIN screen /\ screen'.seeded = screen.seeded /\ screen'.interested = screen.interested
        /\ screen'.dismissed = screen.dismissed \union {home}
    BY <1>0, <2>1
  <2>4. /\ home \in screen'.dismissed
        /\ \A h : h # home => (h \in screen'.dismissed <=> h \in screen.dismissed)
    BY <2>3
  <2> QED
    BY <2>2, <2>3, <2>4, HideMark
<1>2. ASSUME NEW home, restore(home) PROVE MarkInv'
  <2> DEFINE undo == IF screen.undo = home THEN 0 ELSE screen.undo
  <2>1. screen' = [screen EXCEPT !.dismissed = screen.dismissed \ {home}, !.undo = undo]
    BY <1>2 DEF restore
  <2> HIDE DEF undo
  <2>2. requests' = Sent(requests, Request("restore", home, {})) /\ UNCHANGED <<server, cache, history>>
    BY <1>2 DEF restore
  <2>3. /\ DOMAIN screen' = DOMAIN screen /\ screen'.seeded = screen.seeded /\ screen'.interested = screen.interested
        /\ screen'.dismissed = screen.dismissed \ {home}
    BY <1>0, <2>1
  <2>4. /\ home \notin screen'.dismissed
        /\ \A h : h # home => (h \in screen'.dismissed <=> h \in screen.dismissed)
    BY <2>3
  <2> QED
    BY <2>2, <2>3, <2>4, HideMark
<1> QED
  BY <1>1, <1>2, ToggleMark DEF Marks

\* The sets stay as they are when nothing of them moves, but for an answer to read again.
LEMMA MarkStays ==
  ASSUME Shapes, MarkInv, UNCHANGED <<saved, hidden, astray>>, IsScreen(screen'), screen'.seeded = screen.seeded,
         screen'.interested = screen.interested, screen'.dismissed = screen.dismissed,
         requests' = requests \/ \E kinds : kinds \intersect Overlay = {} /\ requests' = Muted(requests, kinds),
         \A n \in Overlays : cache'[Q(n)].data = Data(Q(n)) /\ (cache'[Q(n)].fresh => cache[Q(n)].fresh)
  PROVE  MarkInv'
<1>1. ASSUME NEW n \in screen.seeded, NEW h, <<n, h>> \notin astray
      PROVE  /\ Agrees(requests', MarkedIn(screen, n), Held(n), n, h)
             /\ Keeps(requests', Held(n), cache'[Q(n)], n, h)
  <2>1. n \in Overlays /\ Agrees(requests, MarkedIn(screen, n), Held(n), n, h) /\ Keeps(requests, Held(n), cache[Q(n)], n, h)
    BY <1>1 DEF MarkInv, IsScreen
  <2>2. Keeps(requests, Held(n), cache'[Q(n)], n, h)
    BY <2>1, KeepsFrom DEF Data
  <2>3. ASSUME NEW kinds, kinds \intersect Overlay = {}, requests' = Muted(requests, kinds)
        PROVE  /\ Agrees(requests', MarkedIn(screen, n), Held(n), n, h)
               /\ Keeps(requests', Held(n), cache'[Q(n)], n, h)
    <3>1. Adds(n) \notin kinds
      BY <2>1, <2>3, AddsAre
    <3>2. Requests(requests)
      BY DEF Shapes
    <3>3. Agrees(Muted(requests, kinds), MarkedIn(screen, n), Held(n), n, h)
      BY <2>1, <3>2, AgreesMuted
    <3>4. Keeps(Muted(requests, kinds), Held(n), cache'[Q(n)], n, h)
      BY <2>2, <3>1, <3>2, KeepsMuted
    <3> QED
      BY <2>3, <3>3, <3>4
  <2> QED
    BY <2>1, <2>2, <2>3
<1>2. \A n \in screen.seeded : n \in Overlays /\ MarkedIn(screen', n) = MarkedIn(screen, n)
  BY DEF MarkInv, IsScreen, MarkedIn
<1>3. Held("saved")' = Held("saved") /\ Held("dismissed")' = Held("dismissed")
  BY DEF Held
<1> QED
  BY <1>1, <1>2, <1>3 DEF MarkInv, Overlays, Held

LEMMA AscendingIs ==
  ASSUME NEW S \in SUBSET Int, IsFiniteSet(S)
  PROVE  /\ Cardinality(S) \in Nat /\ Ascending(S) \in [1..Cardinality(S) -> S]
         /\ \A i \in 1..Cardinality(S) : Ascending(S)[i] \in S
         /\ \A x \in S : \E i \in 1..Cardinality(S) : Ascending(S)[i] = x
<1> DEFINE R == {p \in S \X S : p[1] < p[2]}
<1>1. \A x, y \in S : <<x, y>> \in R <=> x < y
  OBVIOUS
<1>2. Ascending(S) = Sorted(S, R)
  BY DEF Ascending, Order
<1> HIDE DEF R
<1>3. Line(S, R)
  BY <1>1 DEF Line
<1>4. /\ Cardinality(S) \in Nat /\ Sorted(S, R) \in [1..Cardinality(S) -> S]
      /\ \A x \in S : \E i \in 1..Cardinality(S) : Sorted(S, R)[i] = x
  BY <1>3, SortedLine
<1> QED
  BY <1>2, <1>4

LEMMA ClearMark == ASSUME Tables, Shapes, ItemInv, MarkInv, clearShownInterest PROVE MarkInv'
<1> DEFINE shown == InterestBar(ScreenRows, screen.interested, screen.dismissed)
           size == Cardinality(shown)
           more == [i \in 1..size |-> Request("unsave", Ascending(shown)[i], {})]
           joined == Joined(requests, more)
<1>1. /\ requests' = Muted(joined, {"unsave"}) /\ screen' = [screen EXCEPT !.interested = @ \ shown]
      /\ cache' = Stale(cache, {Q("saved")}) /\ UNCHANGED <<saved, hidden, astray>>
  BY DEF clearShownInterest, Joined, server, history
<1>2. shown \in SUBSET Int /\ IsFiniteSet(shown)
  <2>1. shown \subseteq Ids(ScreenRows)
    BY DEF InterestBar, interestedRows, Ids
  <2>2. ASSUME NEW n \in {"list", "saved", "dismissed"} PROVE Ids(ViewRows(Data(Q(n)))) \subseteq Int
    <3>1. \A x \in Data(Q(n)) : x.id \in Int
      BY DEF ItemInv, Items, IsItem
    <3>2. Ids(Data(Q(n))) \subseteq Int
      BY <3>1 DEF Ids
    <3> QED
      BY <3>2, ViewIds
  <2> HIDE DEF shown
  <2>3. Ids(ScreenRows) \subseteq Int
    <3> DEFINE page == ViewRows(Data(Q("list")))
               kept == ViewRows(Data(Q("saved")))
               gone == ViewRows(Data(Q("dismissed")))
    <3>1. ScreenRows = Under(page, Under(gone, kept))
      BY DEF ScreenRows, byId
    <3>2. Ids(page) \subseteq Int /\ Ids(kept) \subseteq Int /\ Ids(gone) \subseteq Int
      BY <2>2
    <3> HIDE DEF page, kept, gone
    <3> QED
      BY <3>1, <3>2 DEF Under, Ids
  <2>4. IsFiniteSet(shown)
    BY ScreenRowsFinite, BarFinite DEF shown
  <2> QED
    BY <2>1, <2>3, <2>4
<1> HIDE DEF shown
<1>3. /\ size \in Nat /\ (\A i \in 1..size : Ascending(shown)[i] \in shown)
      /\ \A x \in shown : \E i \in 1..size : Ascending(shown)[i] = x
  BY <1>2, AscendingIs
<1> HIDE DEF size
<1>4. /\ DOMAIN more = 1..size /\ IsSeq(more)
      /\ \A i \in 1..size : IsRequest(more[i]) /\ more[i].kind = "unsave" /\ more[i].on = Ascending(shown)[i]
  <2>1. DOMAIN more = 1..size /\ \A i \in 1..size : more[i] = Request("unsave", Ascending(shown)[i], {})
    OBVIOUS
  <2>2. IsSeq(more)
    BY <1>3 DEF IsSeq
  <2> HIDE DEF more
  <2> QED
    BY <2>1, <2>2, KindsAre, RequestIs
<1> HIDE DEF more
<1>5. (\A h \in shown : \E i \in 1..size : more[i].on = h) /\ \A i \in 1..size : more[i].on \in shown
  BY <1>3, <1>4
<1>6. Requests(requests) /\ Requests(joined)
  <2>1. Requests(requests) /\ IsSeq(requests)
    BY DEF Shapes, Requests
  <2>2. IsSeq(joined) /\ \A k \in DOMAIN joined : \/ \E j \in DOMAIN requests : joined[k] = requests[j]
                                                  \/ \E j \in DOMAIN more : joined[k] = more[j]
    <3>1. IsSeq(more)
      BY <1>4
    <3> QED
      BY <2>1, <3>1, JoinedIs
  <2> HIDE DEF joined
  <2>3. \A j \in DOMAIN more : IsRequest(more[j])
    BY <1>4
  <2> QED
    BY <2>1, <2>2, <2>3 DEF Requests
<1>7. DOMAIN screen = {"interested", "dismissed", "seeded", "undo"}
  BY DEF MarkInv, IsScreen, NewScreen
<1>8. /\ DOMAIN screen' = DOMAIN screen /\ screen'.seeded = screen.seeded /\ screen'.dismissed = screen.dismissed
      /\ screen'.interested = screen.interested \ shown
  BY <1>1, <1>7
<1>9. "unsave" \in Overlay /\ Serves("unsave") = "saved"
  BY DEF Overlay, Serves
<1>10. ASSUME NEW n \in screen.seeded, NEW h, <<n, h>> \notin astray
       PROVE  /\ Agrees(requests', MarkedIn(screen', n), Held(n), n, h)
              /\ Keeps(requests', Held(n), cache'[Q(n)], n, h)
  <2>1. n \in Overlays /\ Agrees(requests, MarkedIn(screen, n), Held(n), n, h) /\ Keeps(requests, Held(n), cache[Q(n)], n, h)
    BY <1>10 DEF MarkInv, IsScreen
  <2>2. (\E k \in DOMAIN more : Served(more[k], n, h)) <=> n = "saved" /\ h \in shown
    BY <1>4, <1>5, <1>9 DEF Served
  <2>3. (\E k \in DOMAIN more : Served(more[k], n, h)) => h \notin MarkedIn(screen', n)
    BY <1>8, <2>2 DEF MarkedIn
  <2>4. (\A k \in DOMAIN more : ~Served(more[k], n, h)) => (h \in MarkedIn(screen', n) <=> h \in MarkedIn(screen, n))
    BY <1>8, <2>2 DEF MarkedIn
  <2>5. Agrees(joined, MarkedIn(screen', n), Held(n), n, h) /\ Keeps(joined, Held(n), cache[Q(n)], n, h)
    BY <1>4, <1>6, <2>1, <2>3, <2>4, JoinedMarks
  <2>6. Q(n) \in Queries
    BY <2>1, QueriesAre DEF Overlays
  <2>7. cache'[Q(n)].data = cache[Q(n)].data /\ (cache'[Q(n)].fresh => cache[Q(n)].fresh)
    BY <1>1, <2>6, StaleIs DEF Data
  <2>8. Keeps(joined, Held(n), cache'[Q(n)], n, h)
    BY <2>5, <2>7, KeepsFrom
  <2> HIDE DEF joined
  <2>9. Adds(n) \notin {"unsave"}
    BY <2>1, AddsAre
  <2> QED
    BY <1>1, <1>6, <2>5, <2>8, <2>9, AgreesMuted, KeepsMuted
<1>11. Held("saved")' = Held("saved") /\ Held("dismissed")' = Held("dismissed")
  BY <1>1 DEF Held
<1>12. \A n \in screen.seeded : n \in Overlays
  BY DEF MarkInv, IsScreen
<1>13. IsScreen(screen')
  BY <1>8 DEF MarkInv, IsScreen
<1> QED
  BY <1>1, <1>8, <1>10, <1>11, <1>12, <1>13 DEF MarkInv, Overlays, Held

LEMMA VisitMark == ASSUME Shapes, MarkInv, NEW to, Visit(to) PROVE MarkInv'
<1> DEFINE Anew(q) == \/ q = Q("list") /\ <<to.searchFilter, to.sourceFilter>> # <<shell.searchFilter, shell.sourceFilter>>
                      \/ q[1] \in {"agents", "agentStats"} /\ to.agentFilter # shell.agentFilter
           Aged(old) == [q \in Queries |-> IF q \in {x \in Queries : Anew(x)} THEN Nowhere
                                           ELSE IF old THEN [cache[q] EXCEPT !.fresh = FALSE] ELSE cache[q]]
<1>1. \E old \in BOOLEAN :
        /\ cache' = Aged(old)
        /\ IF to.path = "/listings" THEN SeedFrom(NewScreen, Aged(old)) ELSE screen' = NewScreen /\ UNCHANGED astray
  BY Zenon DEF Visit
<1> HIDE DEF Aged, Anew
<1>2. IF to.path = "/listings" THEN SeedFrom(NewScreen, cache') ELSE screen' = NewScreen /\ UNCHANGED astray
  BY <1>1
<1>3. requests' = Muted(requests, Overlay) /\ UNCHANGED server
  BY Zenon DEF Visit
<1>4. UNCHANGED <<saved, hidden>>
  BY <1>3 DEF server
<1>5. IsScreen(NewScreen) /\ NewScreen.seeded = {}
  BY DEF IsScreen, NewScreen
<1>6. CASE to.path # "/listings"
  BY <1>2, <1>5, <1>6 DEF MarkInv
<1>7. CASE to.path = "/listings"
  <2>1. SeedFrom(NewScreen, cache')
    BY <1>2, <1>7
  <2>2. IsScreen(screen') /\ \A n \in screen'.seeded : Seeded(n, cache')
    BY <1>5, <2>1, SeedIs
  <2>3. /\ DOMAIN requests' = DOMAIN requests
        /\ \A i \in DOMAIN requests : requests'[i].kind = requests[i].kind /\ requests'[i].on = requests[i].on
    <3>1. Requests(requests)
      BY DEF Shapes
    <3> QED
      BY <1>3, <3>1, MutedIs, MutedCalls
  <2>4. ASSUME NEW n \in screen'.seeded, NEW h, <<n, h>> \notin astray'
        PROVE  /\ Agrees(requests', MarkedIn(screen', n), Held(n), n, h)
               /\ Keeps(requests', Held(n), cache'[Q(n)], n, h)
    <3>1. n \in Overlays /\ Seeded(n, cache')
      BY <2>2, <2>4 DEF IsScreen
    <3> QED
      BY <2>3, <2>4, <3>1, SeededFollows
  <2>5. Held("saved")' = Held("saved") /\ Held("dismissed")' = Held("dismissed")
    BY <1>4 DEF Held
  <2>6. \A n \in screen'.seeded : n \in Overlays
    BY <2>2 DEF IsScreen
  <2> QED
    BY <2>2, <2>4, <2>5, <2>6 DEF MarkInv, Overlays, Held
<1> QED
  BY <1>6, <1>7

LEMMA OverlayQueries == \A n \in Overlays : Q(n) \in Queries /\ Q(n) # Q("list") /\ Q(n) \notin Told_
  BY QueriesAre DEF Overlays, Q, Told_

LEMMA NavigateMark == ASSUME Shapes, MarkInv, Navigate PROVE MarkInv'
<1>1. ASSUME ClearLens PROVE MarkInv'
  <2>1. \A n \in Overlays : cache'[Q(n)] = cache[Q(n)]
    BY <1>1, ClearLensCache, OverlayQueries
  <2>2. UNCHANGED <<server, screen, requests, history>>
    BY Zenon, <1>1 DEF ClearLens
  <2>3. UNCHANGED <<saved, hidden, astray, screen, requests>> /\ IsScreen(screen)
    BY <2>2 DEF server, history, MarkInv
  <2> QED
    BY <2>1, <2>3, MarkStays DEF Data
<1> QED
  BY <1>1, VisitMark, NavigateIs

LEMMA DeskRequests ==
  ASSUME Desk
  PROVE  \/ UNCHANGED requests
         \/ requests' = Muted(requests, {"launch", "approve"})
         \/ \E kind \in Kinds \ Overlay : \E on, what : requests' = Sent(requests, Request(kind, on, what))
<1> DEFINE Sends == \E kind \in Kinds \ Overlay : \E on, what : requests' = Sent(requests, Request(kind, on, what))
<1>0. {"create", "update", "setStatus", "remove", "erase", "launch", "approve", "refresh"} \subseteq Kinds \ Overlay
  BY DEF Kinds, Overlay
<1>1. OpenEditor => UNCHANGED requests
  BY Zenon DEF OpenEditor
<1>2. EditForm => UNCHANGED requests
  BY Zenon DEF EditForm
<1>3. AskRemove => UNCHANGED requests
  BY Zenon DEF AskRemove
<1>4. AgentRow => UNCHANGED requests
  BY Zenon DEF AgentRow
<1>5. CloseDialog => requests' = Muted(requests, {"launch", "approve"})
  BY Zenon DEF CloseDialog
<1>6. ASSUME SaveForm PROVE Sends
  <2> DEFINE kind == IF dialog.form.id = NoSearch THEN "create" ELSE "update"
  <2>1. requests' = Sent(requests, Request(kind, dialog.form.id, dialog.form))
    BY Zenon, <1>6 DEF SaveForm
  <2>2. kind \in Kinds \ Overlay
    BY <1>0
  <2> QED
    BY <2>1, <2>2
<1>7. ASSUME requestToggle \/ ConfirmPause PROVE UNCHANGED requests \/ Sends
  <2>1. UNCHANGED requests \/ \E on, what : requests' = Sent(requests, Request("setStatus", on, what))
    BY Zenon, <1>7 DEF requestToggle, ConfirmPause
  <2> QED
    BY <1>0, <2>1
<1>8. ASSUME ConfirmRemove PROVE Sends
  <2>1. \E on, what : requests' = Sent(requests, Request("remove", on, what))
    BY Zenon, <1>8 DEF ConfirmRemove
  <2> QED
    BY <1>0, <2>1
<1>9. ASSUME RemoveAgent PROVE Sends
  <2>1. \E on, what : requests' = Sent(requests, Request("erase", on, what))
    BY Zenon, <1>9 DEF RemoveAgent
  <2> QED
    BY <1>0, <2>1
<1>10. ASSUME RefreshSources PROVE Sends
  <2>1. \E on, what : requests' = Sent(requests, Request("refresh", on, what))
    BY Zenon, <1>10 DEF RefreshSources
  <2> QED
    BY <1>0, <2>1
<1>11. ASSUME LaunchModal PROVE Sends
  <2>1. \E on, what : requests' = Sent(requests, Request("launch", on, what))
    BY Zenon, <1>11 DEF LaunchModal
  <2> QED
    BY <1>0, <2>1
<1>12. ASSUME Approve PROVE Sends
  <2>1. \E on, what : requests' = Sent(requests, Request("approve", on, what))
    BY Zenon, <1>12 DEF Approve
  <2> QED
    BY <1>0, <2>1
<1> HIDE DEF Sends
<1>13. UNCHANGED requests \/ requests' = Muted(requests, {"launch", "approve"}) \/ Sends
  BY <1>1, <1>2, <1>3, <1>4, <1>5, <1>6, <1>7, <1>8, <1>9, <1>10, <1>11, <1>12 DEF Desk
<1> QED
  BY <1>13 DEF Sends

LEMMA DeskMark == ASSUME Shapes, MarkInv, Desk PROVE MarkInv'
<1>1. UNCHANGED <<server, cache, screen, astray>>
  BY DeskFrame
<1>2. UNCHANGED <<saved, hidden, cache, screen, astray>> /\ IsScreen(screen)
  BY <1>1 DEF server, MarkInv
<1>3. {"launch", "approve"} \intersect Overlay = {}
  BY DEF Overlay
<1>4. CASE UNCHANGED requests \/ requests' = Muted(requests, {"launch", "approve"})
  BY <1>2, <1>3, <1>4, MarkStays DEF Data
<1>5. ASSUME NEW kind \in Kinds \ Overlay, NEW on, NEW what, requests' = Sent(requests, Request(kind, on, what))
      PROVE  MarkInv'
  <2>1. kind \in Kinds /\ kind \notin Overlay
    OBVIOUS
  <2>2. \A n \in Overlays : \A h : IF kind \in Overlay /\ Serves(kind) = n /\ on = h
                                    THEN h \in MarkedIn(screen', n) <=> kind = Adds(n)
                                    ELSE h \in MarkedIn(screen', n) <=> h \in MarkedIn(screen, n)
    BY <1>2, <2>1
  <2> QED
    BY <1>2, <1>5, <2>1, <2>2, MarkSent
<1> QED
  BY <1>4, <1>5, DeskRequests

LEMMA AnswerHolds ==
  ASSUME Tables, ItemInv, NEW n \in Overlays, NEW h \in Held(n) PROVE h \in Ids(Answer(Q(n)))
<1>1. Answer(Q("saved")) = hydrate(rows, saved) /\ Answer(Q("dismissed")) = hydrate(rows, hidden)
  BY DEF Answer, Q
<1>2. h \in Ids(rows)
  BY DEF ItemInv, Held
<1>3. Ids(hydrate(rows, Held(n))) = Held(n) \intersect Ids(rows)
  BY HydratedItems
<1>4. Answer(Q(n)) = hydrate(rows, Held(n))
  BY <1>1 DEF Overlays, Held
<1> QED
  BY <1>2, <1>3, <1>4

LEMMA FetchMark == ASSUME Tables, Shapes, ItemInv, MarkInv, NEW q \in Queries, Fetch(q) PROVE MarkInv'
<1> DEFINE c == [cache EXCEPT ![q] = [data |-> Answer(q), status |-> "success", fresh |-> TRUE]]
<1>1. \/ cache' = c /\ IF shell.path = "/listings" THEN SeedFrom(screen, c) ELSE UNCHANGED <<screen, astray>>
      \/ cache' = [cache EXCEPT ![q].status = "error"] /\ UNCHANGED <<screen, astray>>
  BY Zenon DEF Fetch
<1>2. DOMAIN cache = Queries /\ \A x \in Queries : DOMAIN cache[x] = {"data", "status", "fresh"}
  BY DEF Shapes
<1>3. UNCHANGED <<saved, hidden, requests>>
  BY FetchFrame DEF server
<1>4. IsScreen(screen)
  BY DEF MarkInv
<1>5. CASE cache' = [cache EXCEPT ![q].status = "error"] /\ UNCHANGED <<screen, astray>>
  <2>1. \A x \in Queries : cache'[x].data = cache[x].data /\ cache'[x].fresh = cache[x].fresh
    BY <1>2, <1>5
  <2>2. \A n \in Overlays : cache'[Q(n)].data = Data(Q(n)) /\ (cache'[Q(n)].fresh => cache[Q(n)].fresh)
    BY <2>1, OverlayQueries DEF Data
  <2> QED
    BY <1>3, <1>4, <1>5, <2>2, MarkStays
<1>6. ASSUME cache' = c, IF shell.path = "/listings" THEN SeedFrom(screen, c) ELSE UNCHANGED <<screen, astray>>
      PROVE  MarkInv'
  <2>1. cache'[q] = [data |-> Answer(q), status |-> "success", fresh |-> TRUE] /\ \A x \in Queries \ {q} : cache'[x] = cache[x]
    BY <1>2, <1>6
  <2> HIDE DEF c
  <2>2. /\ IsScreen(screen')
        /\ \A n \in screen'.seeded :
              \/ /\ n \in screen.seeded /\ MarkedIn(screen', n) = MarkedIn(screen, n)
                 /\ \A h : <<n, h>> \notin astray' => <<n, h>> \notin astray
              \/ Seeded(n, c)
    <3>1. CASE shell.path = "/listings"
      BY <1>4, <1>6, <3>1, SeedIs
    <3>2. CASE shell.path # "/listings"
      BY <1>4, <1>6, <3>2
    <3> QED
      BY <3>1, <3>2
  <2>3. ASSUME NEW n \in screen'.seeded, NEW h, <<n, h>> \notin astray'
        PROVE  /\ Agrees(requests, MarkedIn(screen', n), Held(n), n, h)
               /\ Keeps(requests, Held(n), cache'[Q(n)], n, h)
    <3>1. n \in Overlays
      BY <2>2 DEF IsScreen
    <3>2. CASE Seeded(n, c)
      BY <1>6, <2>3, <3>1, <3>2, SeededFollows
    <3>3. CASE n \in screen.seeded /\ MarkedIn(screen', n) = MarkedIn(screen, n) /\ <<n, h>> \notin astray
      <4>1. Agrees(requests, MarkedIn(screen, n), Held(n), n, h) /\ Keeps(requests, Held(n), cache[Q(n)], n, h)
        BY <3>3 DEF MarkInv
      <4>2. CASE q = Q(n)
        <5>1. h \in Held(n) => h \in Ids(cache'[Q(n)].data)
          BY <2>1, <3>1, <4>2, AnswerHolds
        <5>2. Keeps(requests, Held(n), cache'[Q(n)], n, h)
          BY <4>1, <5>1 DEF Keeps
        <5> QED
          BY <3>3, <4>1, <5>2
      <4>3. CASE q # Q(n)
        <5>1. cache'[Q(n)] = cache[Q(n)]
          BY <2>1, <3>1, <4>3, OverlayQueries
        <5> QED
          BY <3>3, <4>1, <5>1
      <4> QED
        BY <4>2, <4>3
    <3> QED
      BY <2>2, <2>3, <3>2, <3>3
  <2>4. Held("saved")' = Held("saved") /\ Held("dismissed")' = Held("dismissed") /\ requests' = requests
    BY <1>3 DEF Held
  <2>5. \A n \in screen'.seeded : n \in Overlays
    BY <2>2 DEF IsScreen
  <2> QED
    BY <2>2, <2>3, <2>4, <2>5 DEF MarkInv, Overlays, Held
<1> QED
  BY <1>1, <1>5, <1>6

\* A change of a set settles: of the homes it is not known to get wrong, it was the
\* first on its way, and the server's set is as the change asked, or as it was.
LEMMA SettleHeld ==
  ASSUME Shapes, NEW i \in DOMAIN requests, NEW outcome, Settle(i, outcome), NEW n \in Overlays, NEW h,
         <<n, h>> \notin astray'
  PROVE  /\ <<n, h>> \notin astray
         /\ Served(requests[i], n, h) => /\ h \in Held(n)' <=> requests[i].kind = Adds(n)
                                         /\ \A j \in DOMAIN requests : j < i => ~Served(requests[j], n, h)
         /\ ~Served(requests[i], n, h) => (h \in Held(n)' <=> h \in Held(n))
         /\ requests[i].kind = Adds(n) =>
              \A j \in DOMAIN requests : j < i => ~(requests[j].kind = Adds(n) /\ requests[j].on = h)
<1> DEFINE r == requests[i]
           lost == IF outcome = "failed" THEN {<<Serves(r.kind), r.on>>} ELSE {}
<1>1. astray' = astray \union (IF r.kind \in Overlay THEN Overtaken(i) \union lost
                               ELSE {<<"dismissed", x>> : x \in hidden' \ hidden})
  BY Zenon DEF Settle
<1>2. <<n, h>> \notin astray
  BY <1>1
<1>3. r.kind \in Overlay =>
         /\ IF outcome = "failed" THEN UNCHANGED <<saved, hidden>> ELSE Carry(r)
         /\ <<n, h>> \notin Overtaken(i) /\ <<n, h>> \notin lost
  BY <1>1, SettleMarks
<1>4. r.kind \notin Overlay => saved' = saved /\ hidden \subseteq hidden' /\ (n = "dismissed" => h \notin hidden' \ hidden)
  BY <1>1, SettleMarks
<1>5. DOMAIN requests \subseteq Int /\ \A j \in DOMAIN requests : j \in 1..(i - 1) <=> j < i
  <2>1. PICK m \in Nat : DOMAIN requests = 1..m
    BY DEF Shapes, Requests, IsSeq
  <2> QED
    BY <2>1
<1>6. ASSUME r.kind \in Overlay, NEW j \in DOMAIN requests, j < i, requests[j].kind \in Overlay,
             Serves(requests[j].kind) = n, requests[j].on = h
      PROVE  requests[j].kind # r.kind /\ ~(r.on = h /\ Serves(r.kind) = n)
  <2> DEFINE behind == {k \in 1..(i - 1) :
                          /\ requests[k].kind \in Overlay
                          /\ \/ requests[k].kind = requests[i].kind
                             \/ requests[k].on = requests[i].on /\ Serves(requests[k].kind) = Serves(requests[i].kind)}
  <2>1. Overtaken(i) = {<<Serves(requests[k].kind), requests[k].on>> : k \in behind}
    BY DEF Overtaken
  <2>2. j \notin behind
    BY <1>3, <1>6, <2>1
  <2>3. j \in 1..(i - 1)
    BY <1>5, <1>6
  <2> QED
    BY <1>6, <2>2, <2>3
<1>7. r.kind \in Kinds
  BY DEF Shapes, Requests, IsRequest
<1>8. ASSUME Served(r, n, h)
      PROVE  /\ h \in Held(n)' <=> r.kind = Adds(n)
             /\ \A j \in DOMAIN requests : j < i => ~Served(requests[j], n, h)
  <2>1. r.kind \in Overlay /\ Serves(r.kind) = n /\ r.on = h
    BY <1>8 DEF Served
  <2>2. Carry(r)
    BY <1>3, <2>1
  <2>3. h \in Held(n)' <=> r.kind = Adds(n)
    <3>1. CASE n = "saved"
      BY <1>7, <2>1, <2>2, <3>1, CarryMarks DEF Held, Adds, Overlay, Serves
    <3>2. CASE n = "dismissed"
      BY <1>7, <2>1, <2>2, <3>2, CarryMarks DEF Held, Adds, Overlay, Serves
    <3> QED
      BY <3>1, <3>2 DEF Overlays
  <2> QED
    BY <1>6, <2>1, <2>3 DEF Served
<1>9. ASSUME ~Served(r, n, h) PROVE h \in Held(n)' <=> h \in Held(n)
  <2>1. CASE r.kind \notin Overlay
    BY <1>4, <2>1 DEF Held, Overlays
  <2>2. CASE r.kind \in Overlay
    <3>1. ~(Serves(r.kind) = n /\ r.on = h)
      BY <1>9, <2>2 DEF Served
    <3>2. CASE outcome = "failed"
      BY <1>3, <2>2, <3>2 DEF Held
    <3>3. CASE outcome # "failed"
      <4>1. Carry(r)
        BY <1>3, <2>2, <3>3
      <4>2. CASE n = "saved"
        BY <1>7, <2>2, <3>1, <4>1, <4>2, CarryMarks DEF Held, Overlay, Serves
      <4>3. CASE n = "dismissed"
        BY <1>7, <2>2, <3>1, <4>1, <4>3, CarryMarks DEF Held, Overlay, Serves
      <4> QED
        BY <4>2, <4>3 DEF Overlays
    <3> QED
      BY <3>2, <3>3
  <2> QED
    BY <2>1, <2>2
<1>10. ASSUME r.kind = Adds(n), NEW j \in DOMAIN requests, j < i PROVE ~(requests[j].kind = Adds(n) /\ requests[j].on = h)
  BY <1>6, <1>10, AddsAre
<1> QED
  BY <1>2, <1>8, <1>9, <1>10

LEMMA SettleMark ==
  ASSUME Shapes, MarkInv, NEW i \in DOMAIN requests, NEW outcome, Settle(i, outcome) PROVE MarkInv'
<1> DEFINE r == requests[i]
           queries == IF r.kind \in Overlay THEN (IF r.calls THEN {Q(Serves(r.kind))} ELSE {})
                      ELSE IF outcome = "done" /\ Found(r) THEN Touches(r.kind) ELSE {}
<1>1. requests' = Without(requests, i) /\ cache' = Stale(cache, queries)
  BY Zenon DEF Settle, Without
<1>2. screen' = screen /\ IsScreen(screen)
  BY SettleFrame DEF MarkInv
<1>3. IsSeq(requests)
  BY DEF Shapes, Requests
<1>4. \A q \in Queries : cache'[q].data = cache[q].data /\ (cache'[q].fresh => cache[q].fresh /\ q \notin queries)
  BY <1>1, StaleIs DEF Data
<1>5. ASSUME NEW n \in screen.seeded, NEW h, <<n, h>> \notin astray'
      PROVE  /\ Agrees(requests', MarkedIn(screen, n), Held(n)', n, h)
             /\ Keeps(requests', Held(n)', cache'[Q(n)], n, h)
  <2>1. n \in Overlays /\ Q(n) \in Queries
    BY <1>2, OverlayQueries DEF IsScreen
  <2>2. /\ <<n, h>> \notin astray
        /\ Served(r, n, h) => /\ h \in Held(n)' <=> r.kind = Adds(n)
                              /\ \A j \in DOMAIN requests : j < i => ~Served(requests[j], n, h)
        /\ ~Served(r, n, h) => (h \in Held(n)' <=> h \in Held(n))
        /\ r.kind = Adds(n) => \A j \in DOMAIN requests : j < i => ~(requests[j].kind = Adds(n) /\ requests[j].on = h)
    BY <1>5, <2>1, SettleHeld
  <2>3. /\ Agrees(requests, MarkedIn(screen, n), Held(n), n, h)
        /\ Keeps(requests, Held(n), cache[Q(n)], n, h)
    BY <1>5, <2>2 DEF MarkInv
  <2>4. Agrees(Without(requests, i), MarkedIn(screen, n), Held(n)', n, h)
    BY <1>3, <2>2, <2>3, AgreesWithout
  <2>5. r.kind = Adds(n) /\ r.calls => Q(n) \in queries
    BY <2>1, AddsAre
  <2> HIDE DEF queries
  <2>6. cache'[Q(n)].data = cache[Q(n)].data /\ (cache'[Q(n)].fresh => cache[Q(n)].fresh /\ ~(r.kind = Adds(n) /\ r.calls))
    BY <1>4, <2>1, <2>5
  <2>7. h \in Held(n)' => h \in Held(n) \/ (r.kind = Adds(n) /\ r.on = h)
    BY <2>2 DEF Served
  <2>8. Keeps(Without(requests, i), Held(n)', cache'[Q(n)], n, h)
    BY <1>3, <2>2, <2>3, <2>6, <2>7, KeepsWithout
  <2> QED
    BY <1>1, <2>4, <2>8
<1>6. \A n \in screen.seeded : n \in Overlays
  BY <1>2 DEF IsScreen
<1>7. \A n \in Overlays : (Held(n)' = IF n = "saved" THEN saved' ELSE hidden')
  BY DEF Held
<1> QED
  BY <1>2, <1>5, <1>6 DEF MarkInv, Overlays, Held

LEMMA InitMark == Init => MarkInv
<1> SUFFICES ASSUME Init PROVE MarkInv
  OBVIOUS
<1>1. screen = NewScreen
  BY Zenon DEF Init
<1>2. DOMAIN screen = DOMAIN NewScreen /\ screen.seeded = {}
  BY <1>1 DEF NewScreen
<1>3. IsScreen(screen)
  BY <1>2 DEF IsScreen
<1> QED
  BY <1>2, <1>3 DEF MarkInv

LEMMA NextMark == Tables /\ Shapes /\ ItemInv /\ MarkInv /\ [Next]_vars => MarkInv'
<1> SUFFICES ASSUME Tables, Shapes, ItemInv, MarkInv, [Next]_vars PROVE MarkInv'
  OBVIOUS
<1>0. IsScreen(screen)
  BY DEF MarkInv
<1>1. ASSUME UNCHANGED <<saved, hidden, astray, screen, requests, cache>> PROVE MarkInv'
  BY <1>0, <1>1, MarkStays DEF Data
<1>2. ASSUME UndoExpires PROVE MarkInv'
  <2>1. UNCHANGED <<server, history, requests, cache>> /\ screen' = [screen EXCEPT !.undo = 0]
    BY <1>2 DEF UndoExpires
  <2>2. DOMAIN screen = {"interested", "dismissed", "seeded", "undo"}
    BY <1>0 DEF IsScreen, NewScreen
  <2>3. /\ DOMAIN screen' = DOMAIN screen /\ screen'.seeded = screen.seeded
        /\ screen'.interested = screen.interested /\ screen'.dismissed = screen.dismissed
    BY <2>1, <2>2
  <2>4. IsScreen(screen')
    BY <1>0, <2>3 DEF IsScreen
  <2>5. UNCHANGED <<saved, hidden, astray, requests, cache>>
    BY <2>1 DEF server, history
  <2> QED
    BY <2>3, <2>4, <2>5, MarkStays DEF Data
<1>3. ASSUME Reobserve \/ Pool PROVE MarkInv'
  BY <1>1, <1>3, ElsewhereIs DEF browser
<1>4. ASSUME WalkOn \/ UNCHANGED vars PROVE MarkInv'
  <2>1. UNCHANGED <<server, browser, history>>
    BY <1>4 DEF WalkOn, vars
  <2> QED
    BY <1>1, <2>1 DEF server, browser, history
<1> QED
  BY <1>2, <1>3, <1>4, MarksMark, ClearMark, NavigateMark, DeskMark, FetchMark, SettleMark DEF Next
-----------------------------------------------------------------------------
(* The rows of the screen and its buckets. *)

IsView(x) == {x.id, x.address, x.ageHours} \subseteq Nat /\ {x.price, x.bedrooms, x.postcode, x.score} \subseteq Value
Views(table) == IsFiniteSet(table) /\ Keyed(table) /\ \A x \in table : IsView(x)

LEMMA ViewIs ==
  ASSUME NEW item, IsItem(item)
  PROVE  IsView(toViewRow(item, Now)) /\ toViewRow(item, Now).id = item.id
<1> DEFINE row == toViewRow(item, Now)
           clamped == Max({0, item.combinedScore})
           age == Max({0, Now - item.seen})
<1>1. item.id \in Nat /\ item.seen \in Nat /\ item.address \in Nat /\ {item.price, item.bedrooms, item.postcode} \subseteq Value
  BY DEF IsItem
<1>2. item.combinedScore \in Value
  BY DEF IsItem
<1>3. penceToPounds(item.price) \in Value
  BY <1>1 DEF penceToPounds, Value, NoValue
<1>4. clamped = IF 0 >= item.combinedScore THEN 0 ELSE item.combinedScore
  BY <1>2 DEF Max, Value, NoValue
<1>5. clamped \in Nat
  BY <1>2, <1>4 DEF Value, NoValue
<1>6. Min({100, clamped}) \in Nat
  <2> HIDE DEF clamped
  <2>1. Min({100, clamped}) = IF 100 <= clamped THEN 100 ELSE clamped
    BY <1>5 DEF Min
  <2> QED
    BY <1>5, <2>1
<1>7. age \in Nat
  <2>1. age = IF 0 >= Now - item.seen THEN 0 ELSE Now - item.seen
    BY <1>1 DEF Max, Now
  <2> QED
    BY <1>1, <2>1 DEF Now
<1>8. /\ row.id = item.id /\ row.address = item.address /\ row.postcode = item.postcode
      /\ row.price = penceToPounds(item.price) /\ row.bedrooms = item.bedrooms /\ row.ageHours = age
      /\ row.score = IF item.combinedScore = NoValue THEN NoValue ELSE Min({100, clamped})
  BY DEF toViewRow, ageHoursSince
<1> HIDE DEF row, clamped, age
<1>9. row.score \in Value
  BY <1>6, <1>8 DEF Value
<1>10. IsView(row)
  BY <1>1, <1>3, <1>7, <1>8, <1>9 DEF IsView
<1> QED
  BY <1>8, <1>10 DEF row

LEMMA ViewsAre ==
  ASSUME NEW items, IsFiniteSet(items), NEW ids, Items(items, ids)
  PROVE  Views(ViewRows(items)) /\ Ids(ViewRows(items)) = Ids(items)
<1> DEFINE view(item) == toViewRow(item, Now)
<1>1. \A item \in items : IsView(view(item)) /\ view(item).id = item.id
  BY ViewIs DEF Items
<1>2. ViewRows(items) = {view(item) : item \in items}
  BY DEF ViewRows
<1> HIDE DEF view
<1>3. \A x \in ViewRows(items) : IsView(x)
  BY <1>1, <1>2
<1>4. Keyed(ViewRows(items))
  BY <1>1, <1>2 DEF Keyed, Items
<1> QED
  BY <1>3, <1>4, ViewFinite, ViewIds DEF Views

LEMMA UnderViews ==
  ASSUME NEW table, Views(table), NEW others, Views(others)
  PROVE  Views(Under(table, others)) /\ Ids(Under(table, others)) = Ids(table) \union Ids(others)
<1>1. IsFiniteSet(Under(table, others))
  BY UnderFinite DEF Views
<1>2. Keyed(Under(table, others)) /\ \A x \in Under(table, others) : IsView(x)
  BY DEF Under, Views, Keyed, Ids
<1>3. Ids(Under(table, others)) = Ids(table) \union Ids(others)
  BY DEF Under, Ids
<1> QED
  BY <1>1, <1>2, <1>3 DEF Views

LEMMA SomeViews == ASSUME NEW table, Views(table), NEW some \in SUBSET table PROVE Views(some)
  BY FS_Subset DEF Views, Keyed

LEMMA ScreenIs ==
  ASSUME Shapes, ItemInv
  PROVE  /\ Views(ScreenRows) /\ Views(ViewRows(Data(Q("list"))))
         /\ Ids(ViewRows(Data(Q("list")))) = Ids(Data(Q("list")))
         /\ Ids(ScreenRows) = Ids(Data(Q("list"))) \union Ids(Data(Q("saved"))) \union Ids(Data(Q("dismissed")))
<1> DEFINE page == Data(Q("list"))
           kept == Data(Q("saved"))
           gone == Data(Q("dismissed"))
<1>1. IsFiniteSet(page) /\ IsFiniteSet(kept) /\ IsFiniteSet(gone)
  BY DEF Shapes
<1>2. Items(page, Ids(rows)) /\ Items(kept, Ids(rows)) /\ Items(gone, Ids(rows))
  BY DEF ItemInv
<1>3. ScreenRows = Under(ViewRows(page), Under(ViewRows(gone), ViewRows(kept)))
  BY DEF ScreenRows, byId
<1> HIDE DEF page, kept, gone
<1>4. /\ Views(ViewRows(page)) /\ Ids(ViewRows(page)) = Ids(page)
      /\ Views(ViewRows(kept)) /\ Ids(ViewRows(kept)) = Ids(kept)
      /\ Views(ViewRows(gone)) /\ Ids(ViewRows(gone)) = Ids(gone)
  BY <1>1, <1>2, ViewsAre
<1> DEFINE rest == Under(ViewRows(gone), ViewRows(kept))
<1>5. Views(rest) /\ Ids(rest) = Ids(gone) \union Ids(kept)
  BY <1>4, UnderViews
<1> HIDE DEF rest
<1>6. Views(Under(ViewRows(page), rest)) /\ Ids(Under(ViewRows(page), rest)) = Ids(page) \union Ids(rest)
  BY <1>4, <1>5, UnderViews
<1>7. Views(ScreenRows) /\ Ids(ScreenRows) = Ids(page) \union Ids(kept) \union Ids(gone)
  BY <1>3, <1>5, <1>6 DEF rest
<1> QED
  BY <1>4, <1>7 DEF page, kept, gone

Buckets == {"active", "saved", "dismissed"}

LEMMA BucketIs ==
  ASSUME Shapes, ItemInv
  PROVE  /\ \A b \in Buckets : Views(Bucket(b))
         /\ Ids(Bucket("active")) = Ids(Data(Q("list"))) \ screen.dismissed
         /\ Ids(Bucket("saved")) = (screen.interested \ screen.dismissed) \intersect Ids(ScreenRows)
         /\ Ids(Bucket("dismissed")) = screen.dismissed \intersect Ids(ScreenRows)
<1> DEFINE table == ScreenRows
           front == ViewRows(Data(Q("list")))
<1>1. /\ Bucket("active") = {row \in front : row.id \notin screen.dismissed}
      /\ Bucket("saved") = {row \in table : row.id \in screen.interested \ screen.dismissed}
      /\ Bucket("dismissed") = {row \in table : row.id \in screen.dismissed}
  BY DEF Bucket, displayRows
<1>2. Views(table) /\ Views(front) /\ Ids(front) = Ids(Data(Q("list")))
  BY ScreenIs
<1> HIDE DEF table, front
<1>3. Views(Bucket("active")) /\ Views(Bucket("saved")) /\ Views(Bucket("dismissed"))
  BY <1>1, <1>2, SomeViews
<1>4. /\ Ids(Bucket("active")) = Ids(front) \ screen.dismissed
      /\ Ids(Bucket("saved")) = (screen.interested \ screen.dismissed) \intersect Ids(table)
      /\ Ids(Bucket("dismissed")) = screen.dismissed \intersect Ids(table)
  BY <1>1 DEF Ids
<1> QED
  BY <1>2, <1>3, <1>4 DEF Buckets, table

LEMMA KeyedSize ==
  ASSUME NEW table, IsFiniteSet(table), Keyed(table) PROVE Cardinality(Ids(table)) = Cardinality(table)
<1> DEFINE f == [row \in table |-> row.id]
<1>1. f \in Surjection(table, Ids(table))
  BY DEF Surjection, Ids
<1>2. f \in Injection(table, Ids(table))
  BY DEF Injection, IsInjective, Keyed, Ids
<1>3. IsFiniteSet(Ids(table)) /\ Cardinality(Ids(table)) <= Cardinality(table)
  BY <1>1, FS_Surjection
<1>4. Cardinality(table) <= Cardinality(Ids(table))
  BY <1>2, <1>3, FS_Injection
<1>5. Cardinality(table) \in Nat /\ Cardinality(Ids(table)) \in Nat
  BY <1>3, FS_CardinalityType
<1> QED
  BY <1>3, <1>4, <1>5

\* The counters count the rows of the buckets.
LEMMA CountsAre ==
  ASSUME Shapes, ItemInv, NEW b \in Buckets
  PROVE  counts(Data(Q("list")), ScreenRows, screen.interested, screen.dismissed)[b] = Cardinality(Bucket(b))
<1> DEFINE page == Data(Q("list"))
           shown == {item \in page : item.id \notin screen.dismissed}
           n == counts(page, ScreenRows, screen.interested, screen.dismissed)
<1>1. /\ n.active = Cardinality(shown)
      /\ n.saved = Cardinality((screen.interested \ screen.dismissed) \intersect Ids(ScreenRows))
      /\ n.dismissed = Cardinality(screen.dismissed \intersect Ids(ScreenRows))
  BY DEF counts
<1>2. Views(Bucket(b))
  BY BucketIs
<1>3. Cardinality(Bucket(b)) = Cardinality(Ids(Bucket(b)))
  BY <1>2, KeyedSize DEF Views
<1>4. IsFiniteSet(shown) /\ Keyed(shown)
  <2>1. IsFiniteSet(page) /\ Keyed(page)
    BY DEF Shapes, ItemInv, Items
  <2>2. shown \in SUBSET page
    OBVIOUS
  <2> QED
    BY <2>1, <2>2, FS_Subset DEF Keyed
<1>5. Ids(shown) = Ids(page) \ screen.dismissed
  BY DEF Ids
<1> HIDE DEF n, shown, page
<1>6. n.active = Cardinality(Ids(shown))
  BY <1>1, <1>4, KeyedSize
<1>7. ASSUME b = "active" PROVE n[b] = Cardinality(Bucket(b))
  BY <1>3, <1>5, <1>6, <1>7, BucketIs DEF page
<1>8. ASSUME b = "saved" PROVE n[b] = Cardinality(Bucket(b))
  BY <1>1, <1>3, <1>8, BucketIs
<1>9. ASSUME b = "dismissed" PROVE n[b] = Cardinality(Bucket(b))
  BY <1>1, <1>3, <1>9, BucketIs
<1>10. n[b] = Cardinality(Bucket(b))
  BY <1>7, <1>8, <1>9 DEF Buckets
<1> QED
  BY <1>10 DEF n, page
-----------------------------------------------------------------------------
(* The sort of the screen *)

Keys == {"score", "ageHours", "price", "bedrooms", "address"}

\* How two rows compare, by their values: rows without one sink.
Compared(av, bv, dir) ==
  IF av = NoValue THEN (IF bv = NoValue THEN 0 ELSE 1)
  ELSE IF bv = NoValue THEN -1
  ELSE IF dir = "asc" THEN av - bv ELSE bv - av

LEMMA CompareIs ==
  ASSUME NEW a, IsView(a), NEW b, IsView(b), NEW key \in Keys, NEW dir
  PROVE  a[key] \in Value /\ b[key] \in Value /\ compare(a, b, key, dir) = Compared(a[key], b[key], dir)
<1>1. CASE key = "address"
  BY <1>1 DEF compare, Compared, IsView, Value, NoValue
<1>2. CASE key # "address"
  <2>1. a[key] \in Value /\ b[key] \in Value
    BY <1>2 DEF Keys, IsView, Value
  <2>2. compare(a, b, key, dir) = Compared(a[key], b[key], dir)
    BY <1>2 DEF compare, Compared
  <2> QED
    BY <2>1, <2>2
<1> QED
  BY <1>1, <1>2

Sooner(av, ai, bv, bi, dir) == Compared(av, bv, dir) < 0 \/ (Compared(av, bv, dir) = 0 /\ ai < bi)

LEMMA SoonerLine ==
  ASSUME NEW dir \in {"asc", "desc"}, NEW av \in Value, NEW bv \in Value, NEW cv \in Value,
         NEW ai \in Nat, NEW bi \in Nat, NEW ci \in Nat
  PROVE  /\ ~Sooner(av, ai, av, ai, dir)
         /\ ai # bi => Sooner(av, ai, bv, bi, dir) \/ Sooner(bv, bi, av, ai, dir)
         /\ Sooner(av, ai, bv, bi, dir) /\ Sooner(bv, bi, cv, ci, dir) => Sooner(av, ai, cv, ci, dir)
         /\ Sooner(av, ai, bv, bi, dir) =>
              bv = NoValue \/ (av # NoValue /\ (IF dir = "asc" THEN av <= bv ELSE av >= bv))
  BY DEF Sooner, Compared, Value, NoValue

\* A bucket sorted is a sequence of its rows, each once, in the order chosen.
LEMMA SortIs ==
  ASSUME NEW table, Views(table), NEW sort, sort.key \in Keys, sort.dir \in {"asc", "desc"}
  PROVE  /\ Cardinality(table) \in Nat
         /\ sortRows(table, sort) \in [1..Cardinality(table) -> table]
         /\ \A row \in table : \E i \in 1..Cardinality(table) : sortRows(table, sort)[i] = row
         /\ InOrder(sortRows(table, sort), sort)
<1> DEFINE R == {p \in table \X table : LET c == compare(p[1], p[2], sort.key, sort.dir)
                                        IN  c < 0 \/ (c = 0 /\ p[1].id < p[2].id)}
           n == Cardinality(table)
           v(x) == x[sort.key]
           shown == sortRows(table, sort)
<1>1. shown = Sorted(table, R)
  BY DEF sortRows, Order
<1>2. ASSUME NEW x \in table, NEW y \in table
      PROVE  /\ v(x) \in Value /\ x.id \in Nat
             /\ <<x, y>> \in R <=> Sooner(v(x), x.id, v(y), y.id, sort.dir)
  <2>1. IsView(x) /\ IsView(y)
    BY DEF Views
  <2>2. v(x) \in Value /\ compare(x, y, sort.key, sort.dir) = Compared(v(x), v(y), sort.dir)
    BY <2>1, CompareIs
  <2>3. x.id \in Nat
    BY <2>1 DEF IsView
  <2>4. <<x, y>> \in R <=> LET c == compare(x, y, sort.key, sort.dir) IN c < 0 \/ (c = 0 /\ x.id < y.id)
    OBVIOUS
  <2> QED
    BY <2>2, <2>3, <2>4 DEF Sooner
<1> HIDE DEF R, v, shown
<1>3. Line(table, R)
  <2>1. \A x \in table : <<x, x>> \notin R
    BY <1>2, SoonerLine
  <2>2. ASSUME NEW x \in table, NEW y \in table, x # y PROVE <<x, y>> \in R \/ <<y, x>> \in R
    <3>1. x.id # y.id
      BY <2>2 DEF Views, Keyed
    <3> QED
      BY <1>2, <3>1, SoonerLine
  <2>3. ASSUME NEW x \in table, NEW y \in table, NEW z \in table, <<x, y>> \in R, <<y, z>> \in R
        PROVE  <<x, z>> \in R
    <3>1. Sooner(v(x), x.id, v(y), y.id, sort.dir) /\ Sooner(v(y), y.id, v(z), z.id, sort.dir)
      BY <1>2, <2>3
    <3>2. v(x) \in Value /\ v(y) \in Value /\ v(z) \in Value /\ x.id \in Nat /\ y.id \in Nat /\ z.id \in Nat
      BY <1>2
    <3>3. Sooner(v(x), x.id, v(z), z.id, sort.dir)
      BY <3>1, <3>2, SoonerLine
    <3> QED
      BY <1>2, <3>3
  <2> QED
    BY <2>1, <2>2, <2>3 DEF Line
<1>4. /\ n \in Nat /\ shown \in [1..n -> table]
      /\ \A row \in table : \E i \in 1..n : shown[i] = row
      /\ \A i, j \in 1..n : i < j => <<shown[i], shown[j]>> \in R
  BY <1>1, <1>3, SortedLine DEF Views
<1> HIDE DEF n
<1>5. Len(shown) = n
  BY <1>4
<1>6. InOrder(shown, sort)
  <2> SUFFICES ASSUME NEW i \in 1..(n - 1)
               PROVE  LET a == shown[i][sort.key]
                          b == shown[i + 1][sort.key]
                      IN  \/ b = NoValue
                          \/ a # NoValue /\ (IF sort.dir = "asc" THEN a <= b ELSE a >= b)
    BY <1>5 DEF InOrder
  <2>1. i \in 1..n /\ i + 1 \in 1..n /\ i < i + 1
    BY <1>4
  <2>2. shown[i] \in table /\ shown[i + 1] \in table /\ <<shown[i], shown[i + 1]>> \in R
    BY <1>4, <2>1
  <2> DEFINE x == shown[i]
             y == shown[i + 1]
  <2> HIDE DEF x, y
  <2>3. /\ v(x) \in Value /\ x.id \in Nat /\ v(y) \in Value /\ y.id \in Nat
        /\ Sooner(v(x), x.id, v(y), y.id, sort.dir)
    BY <1>2, <2>2 DEF x, y
  <2>4. v(y) = NoValue \/ (v(x) # NoValue /\ (IF sort.dir = "asc" THEN v(x) <= v(y) ELSE v(x) >= v(y)))
    BY <2>3, SoonerLine
  <2> QED
    BY <2>4 DEF v, x, y
<1> QED
  BY <1>4, <1>6 DEF n, shown

\* The table and the cards show the bucket, row by row.
LEMMA ScreenShows ==
  ASSUME Shapes, ItemInv, NEW b \in Buckets, NEW sort, sort.key \in Keys, sort.dir \in {"asc", "desc"}, NEW view,
         NEW shown, shown = Screen("ready", Data(Q("list")), Data(Q("saved")), Data(Q("dismissed")),
                                   screen.interested, screen.dismissed, b, sort, view).rows
  PROVE  /\ Len(shown) = counts(Data(Q("list")), ScreenRows, screen.interested, screen.dismissed)[b]
         /\ {shown[i].id : i \in DOMAIN shown} = Ids(Bucket(b))
         /\ InOrder(sortRows(Bucket(b), sort), sort)
<1> DEFINE sorted == sortRows(Bucket(b), sort)
           n == Cardinality(Bucket(b))
           interested == screen.interested
           dismissed == screen.dismissed
           inTable(i) == [id |-> sorted[i].id, opens |-> sorted[i].listingUrl,
                          bookmark |-> InterestButton(sorted[i].id \in interested),
                          eye |-> DismissButton(sorted[i].id \in dismissed),
                          from |-> IF sorted[i].sourceName # NoSource THEN sorted[i].sourceName ELSE sorted[i].agency]
           onCard(i) == ListingCard(sorted[i], sorted[i].id \in interested, sorted[i].id \in dismissed)
           at(i) == IF view = "table" THEN inTable(i) ELSE onCard(i)
<1>1. Views(Bucket(b))
  BY BucketIs
<1>2. /\ n \in Nat /\ sorted \in [1..n -> Bucket(b)] /\ (\A row \in Bucket(b) : \E i \in 1..n : sorted[i] = row)
      /\ InOrder(sorted, sort)
  BY <1>1, SortIs
<1>3. Bucket(b) = displayRows(b, Data(Q("list")), byId(Data(Q("list")), Data(Q("saved")), Data(Q("dismissed"))), interested, dismissed)
  BY DEF Bucket, ScreenRows
<1>4. shown = IF view = "table" THEN ListingsTable(sorted, interested, dismissed) ELSE [i \in DOMAIN sorted |-> onCard(i)]
  BY <1>3 DEF Screen
<1>5. ListingsTable(sorted, interested, dismissed) = [i \in DOMAIN sorted |-> inTable(i)]
  BY DEF ListingsTable
<1>6. \A i : inTable(i).id = sorted[i].id /\ onCard(i).id = sorted[i].id
  BY DEF ListingCard
<1>7. DOMAIN sorted = 1..n
  BY <1>2
<1> HIDE DEF inTable, onCard, sorted, n
<1>8. shown = [i \in 1..n |-> at(i)] /\ \A i : at(i).id = sorted[i].id
  BY <1>4, <1>5, <1>6, <1>7
<1> HIDE DEF at
<1>9. shown \in [1..n -> {at(i) : i \in 1..n}] /\ DOMAIN shown = 1..n
  BY <1>8
<1>10. Len(shown) = n
  BY <1>2, <1>9
<1>11. {shown[i].id : i \in DOMAIN shown} = Ids(Bucket(b))
  <2>1. \A i \in 1..n : shown[i].id = sorted[i].id /\ sorted[i] \in Bucket(b)
    BY <1>2, <1>8
  <2>2. \A row \in Bucket(b) : \E i \in 1..n : sorted[i] = row
    BY <1>2
  <2> DEFINE T == Bucket(b)
  <2> HIDE DEF T
  <2>3. \A i \in 1..n : shown[i].id \in {row.id : row \in T}
    BY <2>1 DEF T
  <2>4. \A row \in T : row.id \in {shown[i].id : i \in 1..n}
    BY <2>1, <2>2 DEF T
  <2>5. {shown[i].id : i \in 1..n} = {row.id : row \in T}
    BY <2>3, <2>4
  <2> QED
    BY <1>9, <2>5 DEF Ids, T
<1> QED
  BY <1>2, <1>10, <1>11, CountsAre DEF n, sorted

\* Each home of a bucket is in the note of its agency, and in no other.
LEMMA NotesAre ==
  ASSUME NEW table, Keyed(table), NEW h
  PROVE  Cardinality({note \in FollowUpModal(table, FALSE).notes : h \in note.names}) = IF h \in Ids(table) THEN 1 ELSE 0
<1> DEFINE key(row) == IF row.agency = NoAgency THEN NO_AGENCY_LABEL ELSE row.agency
           note(a) == [to |-> a, names |-> Ids({row \in table : key(row) = a})]
           group(a) == [agency |-> a, rows |-> {row \in table : key(row) = a}]
           keys == {key(row) : row \in table}
           notes == {note(a) : a \in keys}
<1>1. groupByAgency(table) = {group(a) : a \in keys}
  BY DEF groupByAgency
<1>2. \A a : followUpEmail(group(a)) = note(a)
  BY DEF followUpEmail
<1>3. FollowUpModal(table, FALSE).notes = {followUpEmail(g) : g \in groupByAgency(table)}
  BY DEF FollowUpModal
<1>4. \A a : h \in note(a).names <=> \E row \in table : key(row) = a /\ row.id = h
  BY DEF Ids
<1> HIDE DEF group, note, key
<1>5. FollowUpModal(table, FALSE).notes = notes
  BY <1>1, <1>2, <1>3
<1>6. ASSUME h \notin Ids(table) PROVE {m \in notes : h \in m.names} = {}
  BY <1>4, <1>6 DEF Ids
<1>7. ASSUME h \in Ids(table) PROVE \E m : {x \in notes : h \in x.names} = {m}
  <2>1. PICK row \in table : row.id = h
    BY <1>7 DEF Ids
  <2>2. \A x \in table : x.id = h => x = row
    BY <2>1 DEF Keyed
  <2>3. \A a : h \in note(a).names <=> a = key(row)
    BY <1>4, <2>1, <2>2
  <2>4. {x \in notes : h \in x.names} = {note(key(row))}
    BY <2>1, <2>3
  <2> QED
    BY <2>4
<1> QED
  BY <1>5, <1>6, <1>7, FS_EmptySet, FS_Singleton

\* At rest the sets of the screen are the server's, of the homes it is not known to get wrong.
LEMMA RestTells ==
  ASSUME MarkInv, AtRest, NEW n \in Overlays, NEW h, <<n, h>> \notin astray
  PROVE  (h \in MarkedIn(screen, n) <=> h \in Held(n)) /\ (h \in Held(n) => h \in Ids(Data(Q(n))))
<1>1. n \in screen.seeded /\ DOMAIN requests = {}
  BY DEF AtRest, Overlays
<1>2. Agrees(requests, MarkedIn(screen, n), Held(n), n, h) /\ Keeps(requests, Held(n), cache[Q(n)], n, h)
  BY <1>1 DEF MarkInv
<1>3. Q(n) \in Mounted
  BY DEF AtRest, Shows, Mounted, Overlays
<1>4. cache[Q(n)].fresh
  BY <1>3 DEF AtRest
<1> QED
  BY <1>1, <1>2, <1>4 DEF Agrees, Keeps, Data
-----------------------------------------------------------------------------
(* The map: the batches of postcodes leave none out. *)

LEMMA DivIs ==
  ASSUME NEW a \in Nat, NEW s \in Nat \ {0}
  PROVE  a \div s \in Nat /\ s * (a \div s) <= a /\ a < s * (a \div s) + s
  OBVIOUS

LEMMA TimesGrows ==
  ASSUME NEW x \in Int, NEW y \in Int, NEW s \in Nat \ {0}, s * x < s * y
  PROVE  x < y
<1> SUFFICES ASSUME ~(x < y) PROVE FALSE
  OBVIOUS
<1> DEFINE d == x - y
<1>1. d \in Nat /\ x = y + d
  OBVIOUS
<1> HIDE DEF d
<1>2. s * d \in Nat /\ s * x = s * y + s * d
  BY <1>1
<1> QED
  BY <1>2

\* Each batch holds some of the items, and each item is in a batch.
LEMMA ChunksCover ==
  ASSUME NEW S, NEW n \in Nat, NEW items \in [1..n -> S], NEW size \in Nat \ {0}
  PROVE  /\ \A i \in DOMAIN chunk(items, size) : Range(chunk(items, size)[i]) \subseteq S
         /\ \A k \in 1..n : \E i \in DOMAIN chunk(items, size) : items[k] \in Range(chunk(items, size)[i])
<1> DEFINE m == (n + size - 1) \div size
           lo(i) == size * (i - 1) + 1
           hi(i) == Min({size * i, n})
           batch(i) == SubSeq(items, lo(i), hi(i))
<1>1. Len(items) = n
  OBVIOUS
<1>2. chunk(items, size) = [i \in 1..m |-> batch(i)]
  BY <1>1 DEF chunk
<1>3. m \in Nat /\ n + size - 1 < size * m + size
  <2>1. n + size - 1 \in Nat
    OBVIOUS
  <2> QED
    BY <2>1, DivIs
<1> HIDE DEF m
<1>4. ASSUME NEW i \in 1..m
      PROVE  /\ lo(i) \in Nat \ {0} /\ hi(i) \in Int /\ hi(i) <= n /\ (size * i <= n => hi(i) = size * i)
             /\ (~(size * i <= n) => hi(i) = n)
  <2>1. i - 1 \in Nat /\ i \in Nat
    BY <1>3
  <2>2. size * (i - 1) \in Nat /\ size * i \in Nat
    BY <2>1
  <2> DEFINE p == size * i
  <2>3. hi(i) = IF p <= n THEN p ELSE n
    <3>1. p \in Nat
      BY <2>2
    <3> HIDE DEF p
    <3>2. Min({p, n}) = IF p <= n THEN p ELSE n
      BY <3>1 DEF Min
    <3> QED
      BY <3>2 DEF p
  <2> QED
    BY <2>2, <2>3
<1> HIDE DEF lo, hi
<1>5. ASSUME NEW i \in 1..m
      PROVE  /\ batch(i) \in Seq(S) /\ Len(batch(i)) = (IF lo(i) <= hi(i) THEN hi(i) - lo(i) + 1 ELSE 0)
             /\ \A j \in 1..(hi(i) - lo(i) + 1) : batch(i)[j] = items[lo(i) + j - 1]
  <2>1. lo(i) \in Int /\ hi(i) \in Int /\ \A k \in lo(i)..hi(i) : items[k] \in S
    BY <1>4
  <2> QED
    BY <2>1, SubSeqProperties
<1> HIDE DEF batch
<1>6. ASSUME NEW i \in 1..m PROVE Range(batch(i)) \subseteq S
  <2>1. batch(i) \in Seq(S)
    BY <1>5
  <2> QED
    BY <2>1 DEF Range
<1>7. ASSUME NEW k \in 1..n PROVE \E i \in 1..m : items[k] \in Range(batch(i))
  <2> DEFINE i == (k - 1) \div size + 1
  <2>1. k - 1 \in Nat /\ k \in Int
    OBVIOUS
  <2>2. (k - 1) \div size \in Nat /\ size * ((k - 1) \div size) <= k - 1 /\ k - 1 < size * ((k - 1) \div size) + size
    BY <2>1, DivIs
  <2>3. i \in Nat \ {0} /\ i - 1 = (k - 1) \div size
    BY <2>2
  <2>4. size * (i - 1) <= k - 1 /\ k - 1 < size * (i - 1) + size
    BY <2>2, <2>3
  <2> HIDE DEF i
  <2>5. size * (i - 1) \in Int /\ size * m \in Int /\ size * i \in Int /\ size * i = size * (i - 1) + size
    BY <1>3, <2>3
  <2>6. size * (i - 1) < size * m
    BY <1>3, <2>1, <2>4, <2>5
  <2>7. i - 1 < m
    BY <1>3, <2>3, <2>6, TimesGrows
  <2>8. i \in 1..m
    BY <1>3, <2>3, <2>7
  <2>9. lo(i) <= k /\ k <= hi(i)
    <3>1. lo(i) = size * (i - 1) + 1
      BY DEF lo
    <3>2. k <= size * i
      BY <2>1, <2>4, <2>5
    <3> QED
      BY <1>4, <2>1, <2>4, <2>5, <2>8, <3>1, <3>2
  <2> DEFINE j == k - lo(i) + 1
  <2>10. lo(i) \in Int /\ hi(i) \in Int
    BY <1>4, <2>8
  <2>11. j \in 1..(hi(i) - lo(i) + 1) /\ lo(i) + j - 1 = k /\ lo(i) <= hi(i)
    BY <2>1, <2>9, <2>10
  <2> HIDE DEF j
  <2>12. batch(i)[j] = items[k] /\ j \in 1..Len(batch(i)) /\ batch(i) \in Seq(S)
    BY <1>5, <2>8, <2>11
  <2>13. DOMAIN batch(i) = 1..Len(batch(i))
    BY <2>12
  <2> QED
    BY <2>8, <2>12, <2>13 DEF Range
<1>8. DOMAIN chunk(items, size) = 1..m /\ \A i \in 1..m : chunk(items, size)[i] = batch(i)
  BY <1>2
<1> QED
  BY <1>6, <1>7, <1>8

\* A postcode of the batches is placed when postcodes.io knows it.
LEMMA CodesAre ==
  ASSUME NEW codes \in SUBSET Int, IsFiniteSet(codes), NEW known \in SUBSET Resolvable
  PROVE  geocodePostcodes(codes, known, Resolvable, BULK, {}) = codes \intersect Resolvable
<1> DEFINE S == codes \ known
           items == Ascending(S)
           n == Cardinality(S)
           batches == chunk(items, BULK)
<1>1. S \in SUBSET Int /\ IsFiniteSet(S)
  BY FS_Difference
<1>2. n \in Nat /\ items \in [1..n -> S] /\ \A x \in S : \E k \in 1..n : items[k] = x
  BY <1>1, AscendingIs
<1>3. geocodePostcodes(codes, known, Resolvable, BULK, {})
        = (codes \intersect known) \union UNION {fetchBulk(batches[i], Resolvable, i \in {}) : i \in DOMAIN batches}
  BY DEF geocodePostcodes
<1> HIDE DEF items, n
<1>4. /\ \A i \in DOMAIN batches : Range(batches[i]) \subseteq S
      /\ \A k \in 1..n : \E i \in DOMAIN batches : items[k] \in Range(batches[i])
  <2>1. BULK \in Nat \ {0}
    BY MapAssumption
  <2> HIDE DEF S
  <2> QED
    BY <1>2, <2>1, ChunksCover
<1> HIDE DEF batches
<1>5. \A i : fetchBulk(batches[i], Resolvable, i \in {}) = Range(batches[i]) \intersect Resolvable
  BY DEF fetchBulk
<1>6. \A x \in S : \E i \in DOMAIN batches : x \in Range(batches[i])
  BY <1>2, <1>4
<1>7. UNION {fetchBulk(batches[i], Resolvable, i \in {}) : i \in DOMAIN batches} = S \intersect Resolvable
  <2> DEFINE got == UNION {fetchBulk(batches[i], Resolvable, i \in {}) : i \in DOMAIN batches}
  <2>1. \A x : x \in got <=> \E i \in DOMAIN batches : x \in fetchBulk(batches[i], Resolvable, i \in {})
    OBVIOUS
  <2> HIDE DEF got, S
  <2>2. \A x : x \in got <=> \E i \in DOMAIN batches : x \in Range(batches[i]) /\ x \in Resolvable
    BY <1>5, <2>1
  <2>3. ASSUME NEW x \in got PROVE x \in S /\ x \in Resolvable
    <3>1. PICK i \in DOMAIN batches : x \in Range(batches[i]) /\ x \in Resolvable
      BY <2>2
    <3> QED
      BY <1>4, <3>1
  <2>4. ASSUME NEW x \in S, x \in Resolvable PROVE x \in got
    BY <1>6, <2>2, <2>4
  <2>5. got = S \intersect Resolvable
    BY <2>3, <2>4
  <2> QED
    BY <2>5 DEF got
<1> QED
  BY <1>3, <1>7

LEMMA MapIs ==
  ASSUME NEW table, Views(table), NEW known \in SUBSET Resolvable
  PROVE  Ids(MapModal(table, geocodePostcodes({row.postcode : row \in mapRows(table)}, known, Resolvable, BULK, {})))
           = {row.id : row \in {r \in table : r.postcode \in Resolvable}}
<1> DEFINE placed == mapRows(table)
           codes == {row.postcode : row \in placed}
           coords == geocodePostcodes(codes, known, Resolvable, BULK, {})
           f == [row \in placed |-> row.postcode]
<1>1. placed = {row \in table : row.postcode # NoValue}
  BY DEF mapRows
<1>2. IsFiniteSet(placed)
  BY <1>1, FS_Subset DEF Views
<1>3. codes \in SUBSET Int
  BY <1>1 DEF Views, IsView, Value, NoValue
<1> HIDE DEF placed
<1>4. codes = {f[row] : row \in placed} /\ DOMAIN f = placed
  OBVIOUS
<1> HIDE DEF f
<1>5. IsFiniteSet(codes)
  BY <1>2, <1>4, ImageFinite
<1> HIDE DEF codes
<1>6. coords = codes \intersect Resolvable
  BY <1>3, <1>5, CodesAre
<1> HIDE DEF coords
<1>7. MapModal(table, coords) = {row \in placed : row.postcode \in coords}
  BY DEF MapModal, placed
<1>8. MapModal(table, coords) = {r \in table : r.postcode \in Resolvable}
  <2>1. NoValue \notin Resolvable
    BY MapAssumption
  <2>2. \A row \in placed : row.postcode \in codes
    BY DEF codes
  <2> QED
    BY <1>1, <1>6, <1>7, <2>1, <2>2
<1>9. Ids(MapModal(table, coords)) = {row.id : row \in {r \in table : r.postcode \in Resolvable}}
  BY <1>8 DEF Ids
<1> QED
  BY <1>9 DEF coords, codes, placed
-----------------------------------------------------------------------------
(* At rest the buckets hold what the server holds. *)

LEMMA SortsAre == ASSUME NEW sort \in Sorts PROVE sort.key \in Keys /\ sort.dir \in {"asc", "desc"}
<1>1. DOMAIN SORTS = Keys /\ \A key \in Keys : SORTS[key] \in {"asc", "desc"}
  BY DEF SORTS, Keys
<1>2. PICK was \in DOMAIN SORTS, dir \in {"asc", "desc"}, key \in DOMAIN SORTS :
        sort = onSort([key |-> was, dir |-> dir], key)
  BY DEF Sorts
<1>3. sort = [key |-> key, dir |-> sort.dir] /\ sort.dir \in {"asc", "desc"}
  BY <1>1, <1>2 DEF onSort
<1> QED
  BY <1>1, <1>2, <1>3

LEMMA RestIs ==
  ASSUME Shapes, ItemInv, MarkInv, AtRest, NEW h \in Ids(rows), <<"dismissed", h>> \notin astray
  PROVE  /\ h \in Ids(Bucket("dismissed")) <=> h \in hidden
         /\ h \in Ids(Bucket("active")) <=> h \in Ids(Data(Q("list"))) \ hidden
         /\ <<"saved", h>> \notin astray => (h \in Ids(Bucket("saved")) <=> h \in saved \ hidden)
<1>1. (h \in screen.dismissed <=> h \in hidden) /\ (h \in hidden => h \in Ids(Data(Q("dismissed"))))
  <2>1. "dismissed" \in Overlays /\ MarkedIn(screen, "dismissed") = screen.dismissed /\ Held("dismissed") = hidden
    BY DEF Overlays, MarkedIn, Held
  <2> QED
    BY <2>1, RestTells
<1>2. <<"saved", h>> \notin astray =>
        (h \in screen.interested <=> h \in saved) /\ (h \in saved => h \in Ids(Data(Q("saved"))))
  <2>1. "saved" \in Overlays /\ MarkedIn(screen, "saved") = screen.interested /\ Held("saved") = saved
    BY DEF Overlays, MarkedIn, Held
  <2> QED
    BY <2>1, RestTells
<1>3. /\ Ids(Bucket("active")) = Ids(Data(Q("list"))) \ screen.dismissed
      /\ Ids(Bucket("saved")) = (screen.interested \ screen.dismissed) \intersect Ids(ScreenRows)
      /\ Ids(Bucket("dismissed")) = screen.dismissed \intersect Ids(ScreenRows)
      /\ Ids(ScreenRows) = Ids(Data(Q("list"))) \union Ids(Data(Q("saved"))) \union Ids(Data(Q("dismissed")))
  BY BucketIs, ScreenIs
<1> QED
  BY <1>1, <1>2, <1>3

LEMMA RestNotes ==
  ASSUME Shapes, ItemInv, MarkInv, AtRest, NEW h \in Ids(rows), <<"dismissed", h>> \notin astray, <<"saved", h>> \notin astray
  PROVE  Cardinality({note \in FollowUpModal(interestedRows(ScreenRows, screen.interested, screen.dismissed), FALSE).notes :
                        h \in note.names}) = (IF h \in saved \ hidden THEN 1 ELSE 0)
<1> DEFINE table == interestedRows(ScreenRows, screen.interested, screen.dismissed)
<1>1. table = Bucket("saved")
  BY DEF interestedRows, Bucket, displayRows
<1> HIDE DEF table
<1>2. Keyed(table)
  BY <1>1, BucketIs DEF Buckets, Views
<1>3. h \in Ids(table) <=> h \in saved \ hidden
  BY <1>1, RestIs
<1>4. Cardinality({note \in FollowUpModal(table, FALSE).notes : h \in note.names}) = IF h \in Ids(table) THEN 1 ELSE 0
  BY <1>2, NotesAre
<1>5. Cardinality({note \in FollowUpModal(table, FALSE).notes : h \in note.names}) = IF h \in saved \ hidden THEN 1 ELSE 0
  BY <1>3, <1>4
<1> QED
  BY <1>5 DEF table

LEMMA BucketsTell == Shapes /\ ItemInv /\ MarkInv => BucketsMatchServer
<1> SUFFICES ASSUME Shapes, ItemInv, MarkInv, AtRest PROVE BucketsMatchServer
  BY DEF BucketsMatchServer
<1> DEFINE clear(names) == {h \in Ids(rows) : \A n \in names : <<n, h>> \notin astray}
           n == counts(Data(Q("list")), ScreenRows, screen.interested, screen.dismissed)
           notes == FollowUpModal(interestedRows(ScreenRows, screen.interested, screen.dismissed), FALSE).notes
<1>1. \A h \in clear({"dismissed"}) : /\ h \in Ids(Bucket("dismissed")) <=> h \in hidden
                                      /\ h \in Ids(Bucket("active")) <=> h \in Ids(Data(Q("list"))) \ hidden
  BY RestIs
<1>2. \A h \in clear({"saved", "dismissed"}) :
        /\ h \in Ids(Bucket("saved")) <=> h \in saved \ hidden
        /\ Cardinality({note \in notes : h \in note.names}) = (IF h \in saved \ hidden THEN 1 ELSE 0)
  <2> SUFFICES ASSUME NEW h \in clear({"saved", "dismissed"})
               PROVE  /\ h \in Ids(Bucket("saved")) <=> h \in saved \ hidden
                      /\ Cardinality({note \in notes : h \in note.names}) = (IF h \in saved \ hidden THEN 1 ELSE 0)
    BY Zenon
  <2>1. h \in Ids(rows) /\ <<"dismissed", h>> \notin astray /\ <<"saved", h>> \notin astray
    OBVIOUS
  <2>2. h \in Ids(Bucket("saved")) <=> h \in saved \ hidden
    BY <2>1, RestIs
  <2>3. Cardinality({note \in notes : h \in note.names}) = (IF h \in saved \ hidden THEN 1 ELSE 0)
    BY <2>1, RestNotes
  <2> QED
    BY <2>2, <2>3
<1>3. ASSUME NEW b \in {"active", "saved", "dismissed"}, NEW sort \in Sorts, NEW view \in {"table", "cards"}
      PROVE  LET shown == Screen("ready", Data(Q("list")), Data(Q("saved")), Data(Q("dismissed")),
                                 screen.interested, screen.dismissed, b, sort, view).rows
             IN  /\ Len(shown) = n[b]
                 /\ {shown[i].id : i \in DOMAIN shown} = Ids(Bucket(b))
                 /\ InOrder(sortRows(Bucket(b), sort), sort)
  <2>1. sort.key \in Keys /\ sort.dir \in {"asc", "desc"} /\ b \in Buckets
    BY SortsAre DEF Buckets
  <2> DEFINE shown == Screen("ready", Data(Q("list")), Data(Q("saved")), Data(Q("dismissed")),
                             screen.interested, screen.dismissed, b, sort, view).rows
  <2> HIDE DEF shown
  <2>2. shown = Screen("ready", Data(Q("list")), Data(Q("saved")), Data(Q("dismissed")),
                       screen.interested, screen.dismissed, b, sort, view).rows
    BY DEF shown
  <2>3. /\ Len(shown) = n[b]
        /\ {shown[i].id : i \in DOMAIN shown} = Ids(Bucket(b))
        /\ InOrder(sortRows(Bucket(b), sort), sort)
    BY <2>1, <2>2, ScreenShows
  <2> QED
    BY <2>3 DEF shown
<1>4. ASSUME NEW b \in {"active", "saved", "dismissed"}, NEW known \in SUBSET Resolvable
      PROVE  LET codes == {row.postcode : row \in mapRows(Bucket(b))}
             IN  Ids(MapModal(Bucket(b), geocodePostcodes(codes, known, Resolvable, BULK, {})))
                   = {row.id : row \in {r \in Bucket(b) : r.postcode \in Resolvable}}
  <2>1. Views(Bucket(b))
    BY BucketIs DEF Buckets
  <2> QED
    BY <2>1, MapIs
<1> QED
  BY Zenon, <1>1, <1>2, <1>3, <1>4 DEF BucketsMatchServer

\* Whatever was clicked, settled, failed, overtaken or refetched in between: once the
\* screen is at rest its buckets, counters, rows, notes and map hold what the server
\* holds of the page, the bookmarks and the hidden homes, but for the homes a lost or
\* overtaken change is known to have touched (ListingsPage: the two sets, their
\* seeding, byId, the buckets; FollowUpModal; MapModal, geocodePostcodes).
THEOREM BucketsFollowServer == Spec => []BucketsMatchServer
<1>1. Init => Tables /\ Shapes /\ ItemInv /\ MarkInv
  BY InitTables, InitShapes, InitItems, InitMark
<1>2. Tables /\ Shapes /\ ItemInv /\ MarkInv /\ [Next]_vars => (Tables /\ Shapes /\ ItemInv /\ MarkInv)'
  BY NextTables, NextShapes, NextItems, NextMark
<1>3. Shapes /\ ItemInv /\ MarkInv => BucketsMatchServer
  BY BucketsTell
<1> QED
  BY <1>1, <1>2, <1>3, PTL DEF Spec
=============================================================================
