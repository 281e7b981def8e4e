------------------------------- MODULE FeedView ------------------------------
(* The Listings screen of the browser: what it shows of the rows it fetched    *)
(* and of the two sets it keeps (interested, dismissed). The sets stand for    *)
(* arrays: homes that tie in the sort are ordered by id here, and by when they *)
(* were toggled in the code.                                                   *)
EXTENDS ListingFeed

CONSTANTS
  NoAgency,    \* a listing without an agency
  SOURCE_NAMES \* the crawled sources, which have a name to show

NO_AGENCY_LABEL == "your agent"
Now == 9
-----------------------------------------------------------------------------
(* Rows *)

penceToPounds(pricePence) == IF pricePence = NoValue THEN NoValue ELSE (pricePence + 50) \div 100
ageHoursSince(seen, now) == Max({0, now - seen})

\* combinedScore is in hundredths: the ring clamps it to 0..100.
toViewRow(item, now) ==
  [id |-> item.id, address |-> item.address, postcode |-> item.postcode, outcode |-> item.outcode,
   price |-> penceToPounds(item.price), bedrooms |-> item.bedrooms, agency |-> item.agency,
   sourceName |-> IF item.source \in SOURCE_NAMES THEN item.source ELSE NoSource,
   listingUrl |-> item.link,
   score |-> IF item.combinedScore = NoValue THEN NoValue
             ELSE Min({100, Max({0, item.combinedScore})}),
   ageHours |-> ageHoursSince(item.seen, now)]

SORTS == [score |-> "desc", ageHours |-> "asc", price |-> "desc", bedrooms |-> "desc", address |-> "asc"]

\* Negative: a comes first. Rows without a value sink, whatever the direction.
compare(a, b, key, dir) ==
  LET av == a[key]
      bv == b[key]
      by == IF dir = "asc" THEN av - bv ELSE bv - av
  IN  IF key = "address" THEN by
      ELSE IF av = NoValue THEN (IF bv = NoValue THEN 0 ELSE 1)
      ELSE IF bv = NoValue THEN -1
      ELSE by

sortRows(rows, sort) ==
  LET Before(a, b) == LET c == compare(a, b, sort.key, sort.dir)
                      IN  c < 0 \/ (c = 0 /\ a.id < b.id)
  IN  Sorted(rows, Order(rows, Before))

\* A header chosen twice turns its order over; another starts at its own.
onSort(sort, key) ==
  IF sort.key = key THEN [key |-> key, dir |-> IF sort.dir = "asc" THEN "desc" ELSE "asc"]
  ELSE [key |-> key, dir |-> SORTS[key]]
-----------------------------------------------------------------------------
(* The buckets. `page`, `saved` and `hidden` are the sets of items fetched.    *)

Ids(rows) == {row.id : row \in rows}
ViewRows(items) == {toViewRow(item, Now) : item \in items}
Under(rows, others) == rows \union {row \in others : row.id \notin Ids(rows)}

byId_PageOnly(page, saved, hidden) == ViewRows(page)
byId(page, saved, hidden) == Under(ViewRows(page), Under(ViewRows(hidden), ViewRows(saved)))

displayRows(bucket, page, rows, interested, dismissed) ==
  CASE bucket = "saved"     -> {row \in rows : row.id \in interested \ dismissed}
    [] bucket = "dismissed" -> {row \in rows : row.id \in dismissed}
    [] OTHER                -> {row \in ViewRows(page) : row.id \notin dismissed}

counts(page, rows, interested, dismissed) ==
  [active    |-> Cardinality({item \in page : item.id \notin dismissed}),
   saved     |-> Cardinality((interested \ dismissed) \intersect Ids(rows)),
   dismissed |-> Cardinality(dismissed \intersect Ids(rows))]

interestedRows(rows, interested, dismissed) ==
  {row \in rows : row.id \in interested /\ row.id \notin dismissed}

\* The two toggles of a home, by what a click sends.
InterestButton(interested) == IF interested THEN "unsave" ELSE "save"
DismissButton(dismissed)   == IF dismissed THEN "restore" ELSE "dismiss"

\* What a home offers in the table and on its card, and whether a click opens it.
ListingsTable(rows, interested, dismissed) ==
  [i \in DOMAIN rows |->
     [id |-> rows[i].id, opens |-> rows[i].listingUrl,
      bookmark |-> InterestButton(rows[i].id \in interested),
      eye |-> DismissButton(rows[i].id \in dismissed),
      from |-> IF rows[i].sourceName # NoSource THEN rows[i].sourceName ELSE rows[i].agency]]
ListingCard(row, interested, dismissed) ==
  [id |-> row.id, opens |-> row.listingUrl, bookmark |-> InterestButton(interested),
   eye |-> DismissButton(dismissed), from |-> NoSource]

InterestBar(rows, interested, dismissed) == Ids(interestedRows(rows, interested, dismissed))
-----------------------------------------------------------------------------
(* Follow-ups: one note per agency. *)

groupByAgency(rows) ==
  LET key(row) == IF row.agency = NoAgency THEN NO_AGENCY_LABEL ELSE row.agency
  IN  {[agency |-> a, rows |-> {row \in rows : key(row) = a}] : a \in {key(row) : row \in rows}}

followUpEmail(group) == [to |-> group.agency, names |-> Ids(group.rows)]

FollowUpModal(rows, sent) ==
  [notes |-> IF sent THEN {} ELSE {followUpEmail(group) : group \in groupByAgency(rows)},
   told |-> Cardinality(groupByAgency(rows)),
   button |-> IF sent THEN "Done" ELSE "Send"]
-----------------------------------------------------------------------------
(* The map. postcodes.io answers a batch of at most `size` postcodes, or fails *)
(* it; what it resolved is kept in localStorage.                               *)

chunk(items, size) ==
  [i \in 1..((Len(items) + size - 1) \div size) |->
     SubSeq(items, size * (i - 1) + 1, Min({size * i, Len(items)}))]

fetchBulk(batch, resolves, fails) == IF fails THEN {} ELSE Range(batch) \intersect resolves

geocodePostcodes(postcodes, cached, resolves, size, failing) ==
  LET batches == chunk(Ascending(postcodes \ cached), size)
  IN  (postcodes \intersect cached)
        \union UNION {fetchBulk(batches[i], resolves, i \in failing) : i \in DOMAIN batches}

\* The homes to place, and those it can.
mapRows(rows) == {row \in rows : row.postcode # NoValue}
MapModal(rows, coords) == {row \in mapRows(rows) : row.postcode \in coords}
-----------------------------------------------------------------------------
(* The screen *)

\* The banner of each lens there is, with the way out of it.
Banners(search, source) ==
  (IF search.id = NoSearch THEN {} ELSE {"search"}) \union (IF source = NoSource THEN {} ELSE {"source"})

\* What stands below the banner: the count of the page and of the buckets, the
\* rows, the bar of the bookmarked homes, and whether the map can be opened.
Screen(query, page, saved, hidden, interested, dismissed, bucket, sort, view) ==
  LET rows  == byId(page, saved, hidden)
      shown == sortRows(displayRows(bucket, page, rows, interested, dismissed), sort)
      card(row) == ListingCard(row, row.id \in interested, row.id \in dismissed)
  IN  IF query # "ready" THEN [body |-> query, rows |-> <<>>, count |-> 0, bar |-> {}]
      ELSE [body |-> IF shown = <<>> THEN "empty" ELSE "rows",
            rows |-> IF view = "table" THEN ListingsTable(shown, interested, dismissed)
                     ELSE [i \in DOMAIN shown |-> card(shown[i])],
            count |-> Cardinality(page),
            bar |-> InterestBar(rows, interested, dismissed)]
==============================================================================
