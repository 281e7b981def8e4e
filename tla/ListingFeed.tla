----------------------------- MODULE ListingFeed -----------------------------
(* The read side of the catalogue: the filters, sorts and cursors of the lists *)
(* the API pages through, and the rows it hands to the browser. Ids are        *)
(* numbers in the order of creation (uuid 7). NoValue stands for NULL in a     *)
(* column and for a field the caller left undefined.                           *)
EXTENDS Integers, Sequences, FiniteSets, SequencesExt, FiniteSetsExt

CONSTANT MAX_PAGE_LIMIT \* rows of a page at most: 100

NoValue == -1
Value == Nat \union {NoValue} \* of a nullable column
NoSearch == "no search"
NoSource == "no source"
-----------------------------------------------------------------------------
(* Cursors *)

clampLimit(limit) == Min({Max({limit, 1}), MAX_PAGE_LIMIT})

\* The boundary row: its value in the sort column, its id, and whether the value
\* is NULL (priceIsNull, scoreIsNull). A list by id alone leaves the value out.
CompositeCursorPayload(value, id) ==
  [sortValue |-> IF value = NoValue THEN 0 ELSE value, id |-> id, isNull |-> value = NoValue]
NoCursor == [sortValue |-> NoValue, id |-> 0, isNull |-> FALSE]
encodeCursor(row) == CompositeCursorPayload(NoValue, row.id)

\* The over-fetched rows of one page, and the cursor of its last row when a row
\* was left over.
paginate(rows, limit, cursor) ==
  IF Len(rows) <= limit THEN [items |-> rows, nextCursor |-> NoCursor]
  ELSE [items |-> SubSeq(rows, 1, limit), nextCursor |-> cursor[rows[limit]]]

\* ORDER BY: each row stands behind as many as come before it.
Sorted(rows, order) ==
  [i \in 1..Cardinality(rows) |->
     CHOOSE row \in rows : Cardinality({x \in rows : <<x, row>> \in order}) = i - 1]
Order(rows, Before(_, _)) == {p \in rows \X rows : Before(p[1], p[2])}
Ascending(numbers) == Sorted(numbers, Order(numbers, LAMBDA m, n : m < n))

\* ORDER BY and LIMIT over a set of rows.
Take(rows, n, Before(_, _)) ==
  SubSeq(Sorted(rows, Order(rows, Before)), 1, Min({n, Cardinality(rows)}))
-----------------------------------------------------------------------------
(* The agents of a patch *)

buildAgentCursorFilter(agent, cursor) == agent.id < cursor.id

listAgents(agents, outcodes, includeOptedOut, cursor, limit) ==
  LET rows == {a \in agents :
                 /\ includeOptedOut \/ ~a.optedOut
                 /\ outcodes # {} => outcodes \cap a.covers # {}
                 /\ cursor # NoCursor => buildAgentCursorFilter(a, cursor)}
      n    == clampLimit(limit)
  IN  paginate(Take(rows, n + 1, LAMBDA a, b : a.id > b.id), n,
               [a \in rows |-> encodeCursor(a)])
-----------------------------------------------------------------------------
(* The listings *)

NoFilter == [outcodes |-> {}, maxPrice |-> NoValue, minBedrooms |-> NoValue, source |-> NoSource]

\* The wire's filter, field by field; an empty set of outcodes filters nothing.
toRepositoryFilter(wire) ==
  [outcodes |-> wire.outcodes, maxPrice |-> wire.maxPrice, minBedrooms |-> wire.minBedrooms,
   primarySource |-> IF wire.source = NoSource THEN {} ELSE {wire.source}]

\* A NULL column passes no condition on it.
buildWhere(row, filter) ==
  /\ filter.outcodes # {} => row.outcode \in filter.outcodes
  /\ filter.maxPrice # NoValue => row.price # NoValue /\ row.price <= filter.maxPrice
  /\ filter.minBedrooms # NoValue => row.bedrooms # NoValue /\ row.bedrooms >= filter.minBedrooms
  /\ filter.primarySource # {} => row.source \in filter.primarySource

\* The same conditions, as SQL over the alias of the join.
buildScoreFilterFragments(row, filter) == buildWhere(row, filter)

sortColumnFor(sort) ==
  CASE sort.by = "price" -> "pricePence" [] sort.by = "lastSeenAt" -> "lastSeenAt" [] OTHER -> "none"

ColumnOf(row, column) == IF column = "pricePence" THEN row.price ELSE row.seen
cursorPayloadOf(row, column) == CompositeCursorPayload(ColumnOf(row, column), row.id)

Ahead(x, y, dir) == IF dir = "asc" THEN x > y ELSE x < y

buildCompositeCursorFilter_NullsForgotten(row, column, cursor, dir) ==
  LET value == ColumnOf(row, column)
      tie   == Ahead(row.id, cursor.id, dir)
  IN  IF cursor.isNull THEN value = NoValue /\ tie
      ELSE Ahead(value, cursor.sortValue, dir) \/ (value = cursor.sortValue /\ tie)

\* Postgres puts NULLs last in ascending and first in descending order.
buildCompositeCursorFilter(row, column, cursor, dir) ==
  LET value == ColumnOf(row, column)
      null  == value = NoValue
      tie   == Ahead(row.id, cursor.id, dir)
  IN  IF column = "lastSeenAt"
        THEN Ahead(value, cursor.sortValue, dir) \/ (value = cursor.sortValue /\ tie)
      ELSE IF cursor.isNull
        THEN (null /\ tie) \/ (dir = "desc" /\ ~null)
      ELSE \/ ~null /\ Ahead(value, cursor.sortValue, dir)
           \/ dir = "asc" /\ null
           \/ value = cursor.sortValue /\ tie

buildScoreCursorFragment(row, score, cursor, dir) ==
  LET tie == Ahead(row.id, cursor.id, dir)
  IN  IF cursor.isNull THEN score = NoValue /\ tie
      ELSE \/ score = NoValue
           \/ Ahead(score, cursor.sortValue, dir)
           \/ score = cursor.sortValue /\ tie

\* The best of a listing's scores, and its score for one search.
getCombinedScore(row) == Max({NoValue} \union {row.scores[s] : s \in DOMAIN row.scores})
getCombinedScoreForSearch(row, search) ==
  IF search \in DOMAIN row.scores THEN row.scores[search] ELSE NoValue
ScoreOf(row, search) ==
  IF search = NoSearch THEN getCombinedScore(row) ELSE getCombinedScoreForSearch(row, search)

\* ORDER BY value dir, id dir, with the NULLs on the side named.
Ordered(a, av, b, bv, dir, nullsFirst) ==
  \/ av = bv /\ Ahead(b.id, a.id, dir)
  \/ av # bv /\ av = NoValue /\ nullsFirst
  \/ av # bv /\ bv = NoValue /\ ~nullsFirst
  \/ av # NoValue /\ bv # NoValue /\ Ahead(bv, av, dir)

listByCombinedScore(rows, filter, cursor, dir, limit, search) ==
  LET found == {row \in rows :
                  /\ buildScoreFilterFragments(row, filter)
                  /\ cursor # NoCursor =>
                       buildScoreCursorFragment(row, ScoreOf(row, search), cursor, dir)}
      Before(a, b) == Ordered(a, ScoreOf(a, search), b, ScoreOf(b, search), dir, FALSE)
  IN  paginate(Take(found, limit + 1, Before), limit,
               [row \in found |-> CompositeCursorPayload(ScoreOf(row, search), row.id)])

list(rows, input) ==
  LET limit  == clampLimit(input.limit)
      column == sortColumnFor(input.sort)
      dir    == input.sort.dir
      filter == toRepositoryFilter(input.filter)
      found  == {row \in rows :
                   /\ buildWhere(row, filter)
                   /\ input.cursor # NoCursor =>
                        buildCompositeCursorFilter(row, column, input.cursor, dir)}
      Before(a, b) == Ordered(a, ColumnOf(a, column), b, ColumnOf(b, column), dir, dir = "desc")
  IN  IF column = "none"
      THEN listByCombinedScore(rows, filter, input.cursor, dir, limit, input.search)
      ELSE paginate(Take(found, limit + 1, Before), limit,
                    [row \in found |-> cursorPayloadOf(row, column)])
-----------------------------------------------------------------------------
(* What the router hands to the browser *)

\* A row with its Match ring and the label of its agency (its name, or the
\* agent's address).
attachScores(rows, search) ==
  {[id |-> row.id, address |-> row.address, postcode |-> row.postcode, outcode |-> row.outcode,
    price |-> row.price, bedrooms |-> row.bedrooms, seen |-> row.seen, source |-> row.source,
    link |-> row.link, agency |-> row.agency, combinedScore |-> ScoreOf(row, search)] :
     row \in rows}

\* The rows of an owner's overlay. An id whose listing is gone is dropped. (Newest
\* first in the code; the screens sort them.)
hydrate(rows, ids) == attachScores({row \in rows : row.id \in ids}, NoSearch)

countByOutcodes(rows, outcodes) == Cardinality({row \in rows : row.outcode \in outcodes})
countByAgentEmail(rows, email) == Cardinality({row \in rows : row.agency = email})
==============================================================================
